---------------------------- MODULE Spec2Model ----------------------------
(***************************************************************************)
(* Battery_Charge_Manager: the sysfs readers, the peripheral              *)
(* de-duplication and identity matching, the peripherals tab's cards, the *)
(* vendor look-up, the language table, the refresh timer and the Apply    *)
(* handler of the settings tab, as state machines over the files they     *)
(* read and write.                                                         *)
(*                                                                         *)
(* Strings are TLA+ strings; a character is a string of length 1.         *)
(***************************************************************************)
EXTENDS Naturals, Integers, Sequences, FiniteSets, TLC

VARIABLES
    sysfs,      \* /sys/class/power_supply: entries in enumeration order
    dmi,        \* /sys/class/dmi/id: field name -> Some(raw content), or None
    platform,   \* the files that exist under /sys/devices/platform (paths)
    lang,       \* CURRENT_LANG
    cards,      \* UpdatablePeripheralsWidgets.devices, None when no tab was built
    app,        \* the window: monitored battery, shared BatteryInfo, labels, timer
    host,       \* /etc/battery-manager/<battery>.conf and battery-manager.service
    call,       \* the operation that ran last, with its arguments
    ret         \* what it returned

vars == <<sysfs, dmi, platform, lang, cards, app, host, call, ret>>

None == [some |-> FALSE]
Some(v) == [some |-> TRUE, val |-> v]
NoCall == [fn |-> "none"]
\* cards before build_ui has run
NotStarted == [started |-> FALSE]
\* the application before build_ui has run
NoWindow == [state |-> "not started"]
\* no configuration saved, the service not enabled
FreshHost == [conf |-> None, service_enabled |-> FALSE]
\* /sys/class/dmi/id without a readable file
NoDmi == [sys_vendor |-> None, product_name |-> None]

(***************************************************************************)
(* str: the string operations of the Rust standard library the code uses. *)
(***************************************************************************)
\* the characters the model's strings are made of, in code-point order
Ascii == "\t\n +,-./0123456789:ABCDEFGHIJKLMNOPQRSTUVWXYZ\\_abcdefghijklmnopqrstuvwxyz|"
Upper == "ABCDEFGHIJKLMNOPQRSTUVWXYZ"
Lower == "abcdefghijklmnopqrstuvwxyz"
Digits == "0123456789"

Char(s, i) == SubSeq(s, i, i)
IndexIn(alphabet, c) ==
    IF \E i \in 1..Len(alphabet) : Char(alphabet, i) = c
    THEN CHOOSE i \in 1..Len(alphabet) : Char(alphabet, i) = c
    ELSE 0
\* the tables of Ord and of char::to_ascii_lowercase over Ascii
CharSet == {Char(Ascii, i) : i \in 1..Len(Ascii)}
OrdTable == [c \in CharSet |-> IndexIn(Ascii, c)]
LowerTable ==
    [c \in CharSet |-> IF IndexIn(Upper, c) > 0 THEN Char(Lower, IndexIn(Upper, c)) ELSE c]
DigitTable == [c \in CharSet |-> IndexIn(Digits, c) - 1]
Ord(c) == OrdTable[c]

StartsWith(s, p) == Len(s) >= Len(p) /\ SubSeq(s, 1, Len(p)) = p
Contains(s, p) == \E i \in 0..(Len(s) - Len(p)) : SubSeq(s, i + 1, i + Len(p)) = p

\* impl Ord for str: byte-wise lexicographic order
RECURSIVE StrLess(_, _)
StrLess(a, b) ==
    IF b = "" THEN FALSE
    ELSE IF a = "" THEN TRUE
    ELSE IF Head(a) = Head(b) THEN StrLess(Tail(a), Tail(b))
    ELSE Ord(Head(a)) < Ord(Head(b))

IsWhitespace(c) == c \in {" ", "\t", "\n"}
RECURSIVE TrimStart(_)
TrimStart(s) == IF s # "" /\ IsWhitespace(Head(s)) THEN TrimStart(Tail(s)) ELSE s
RECURSIVE TrimEnd(_)
TrimEnd(s) ==
    IF s # "" /\ IsWhitespace(Char(s, Len(s))) THEN TrimEnd(SubSeq(s, 1, Len(s) - 1)) ELSE s
Trim(s) == TrimEnd(TrimStart(s))

ToLowerChar(c) == LowerTable[c]
RECURSIVE ToLowercase(_)
ToLowercase(s) == IF s = "" THEN "" ELSE ToLowerChar(Head(s)) \o ToLowercase(Tail(s))
EqIgnoreAsciiCase(a, b) == ToLowercase(a) = ToLowercase(b)

\* str::parse for an unsigned integer of the given maximum: an optional '+',
\* then one or more decimal digits, the value within range (the model's
\* strings hold at most nine digits)
RECURSIVE DigitsValue(_, _)
DigitsValue(s, acc) ==
    IF s = "" THEN acc
    ELSE DigitsValue(Tail(s), acc * 10 + DigitTable[Head(s)])
AllDigits(s) == \A i \in 1..Len(s) : DigitTable[Char(s, i)] >= 0
ParseUnsigned(s, max) ==
    LET body == IF s # "" /\ Head(s) = "+" THEN Tail(s) ELSE s
    IN  IF body # "" /\ AllDigits(body) /\ Len(body) <= 9 /\ DigitsValue(body, 0) <= max
        THEN Some(DigitsValue(body, 0))
        ELSE None


(***************************************************************************)
(* The file system. An entry of /sys/class/power_supply is a name and its *)
(* files; a file is Some(raw content) or None (missing or unreadable).    *)
(***************************************************************************)
FileNames ==
    {"manufacturer", "model_name", "status", "capacity", "voltage_now",
     "serial_number", "online", "type", "scope"}

\* the files of an entry, given the contents of those that exist
Files(present) == [f \in FileNames |-> IF f \in DOMAIN present THEN Some(present[f]) ELSE None]

EntryNames(dir) == {dir[i].name : i \in 1..Len(dir)}

\* fs::read_to_string("/sys/class/power_supply/<device_name>/<filename>")
ReadToString(dir, device_name, filename) ==
    IF \E i \in 1..Len(dir) : dir[i].name = device_name
    THEN LET e == dir[CHOOSE i \in 1..Len(dir) : dir[i].name = device_name]
         IN  IF filename \in DOMAIN e.files THEN e.files[filename] ELSE None
    ELSE None

(***************************************************************************)
(* core/peripheral.rs                                                      *)
(***************************************************************************)
U8Max == 255

read_sysfs_string(dir, device_name, filename) ==
    LET content == ReadToString(dir, device_name, filename)
    IN  IF content.some THEN Some(Trim(content.val)) ELSE None

read_sysfs_u8(dir, device_name, filename) ==
    LET content == read_sysfs_string(dir, device_name, filename)
    IN  IF content.some THEN ParseUnsigned(content.val, U8Max) ELSE None

\* u64: the model's files hold at most nine digits, all of which parse::<u64> accepts
read_sysfs_u64(dir, device_name, filename) ==
    LET content == read_sysfs_string(dir, device_name, filename)
    IN  IF content.some THEN ParseUnsigned(content.val, 999999999) ELSE None

UnwrapOr(opt, default) == IF opt.some THEN opt.val ELSE default

PeripheralNew(dir, device_name) ==
    [name          |-> device_name,
     manufacturer  |-> UnwrapOr(read_sysfs_string(dir, device_name, "manufacturer"), "Unknown"),
     model_name    |-> UnwrapOr(read_sysfs_string(dir, device_name, "model_name"), "Unknown"),
     status        |-> UnwrapOr(read_sysfs_string(dir, device_name, "status"), "Unknown"),
     capacity_percent |-> UnwrapOr(read_sysfs_u8(dir, device_name, "capacity"), 0),
     voltage_now   |-> read_sysfs_u64(dir, device_name, "voltage_now"),
     serial_number |-> read_sysfs_string(dir, device_name, "serial_number"),
     online        |-> UnwrapOr(read_sysfs_u8(dir, device_name, "online"), 0) = 1,
     device_type   |-> UnwrapOr(read_sysfs_string(dir, device_name, "type"), "Unknown"),
     scope         |-> UnwrapOr(read_sysfs_string(dir, device_name, "scope"), "Unknown")]

dedupe_score_dropped_term(p) ==
    (IF p.online THEN 16 ELSE 0)
    + (IF p.voltage_now.some THEN 8 ELSE 0)
    + (IF p.capacity_percent > 0 THEN 4 ELSE 0)
    + (IF ~EqIgnoreAsciiCase(Trim(p.status), "Unknown") THEN 2 ELSE 0)

dedupe_score(p) ==
    (IF p.online THEN 16 ELSE 0)
    + (IF p.voltage_now.some THEN 8 ELSE 0)
    + (IF p.capacity_percent > 0 THEN 4 ELSE 0)
    + (IF ~EqIgnoreAsciiCase(Trim(p.status), "Unknown") THEN 2 ELSE 0)
    + (IF EqIgnoreAsciiCase(Trim(p.status), "Charging") THEN 2 ELSE 0)

stable_id_model_first(p) ==
    LET serial == Trim(UnwrapOr(p.serial_number, ""))
        manufacturer == Trim(p.manufacturer)
        model_name == Trim(p.model_name)
    IN  IF manufacturer # "Unknown" /\ model_name # "Unknown"
        THEN "mm:" \o manufacturer \o "|" \o model_name
        ELSE IF serial # "" /\ serial # "Unknown" THEN "serial:" \o serial
        ELSE "name:" \o p.name

stable_id(p) ==
    LET serial == Trim(UnwrapOr(p.serial_number, ""))
        manufacturer == Trim(p.manufacturer)
        model_name == Trim(p.model_name)
    IN  IF serial # "" /\ serial # "Unknown" THEN "serial:" \o serial
        ELSE IF manufacturer # "Unknown" /\ model_name # "Unknown"
        THEN "mm:" \o manufacturer \o "|" \o model_name
        ELSE "name:" \o p.name

is_connected(p) ==
    \/ p.online
    \/ p.voltage_now.some
    \/ p.capacity_percent > 0
    \/ Trim(p.status) # "" /\ ~EqIgnoreAsciiCase(Trim(p.status), "Unknown")

\* the filter of detect_all on an entry's name
IsPeripheralName(name) ==
    \/ StartsWith(name, "hidpp_battery_")
    \/ StartsWith(name, "hid-")
    \/ Contains(name, "mouse")
    \/ Contains(name, "keyboard")

\* the test under which detect_all replaces the device kept for an id
ReplacesFirstSeenOnTie(device, existing) ==
    dedupe_score(device) >= dedupe_score(existing)

Replaces(device, existing) ==
    \/ dedupe_score(device) > dedupe_score(existing)
    \/ dedupe_score(device) = dedupe_score(existing) /\ StrLess(device.name, existing.name)

\* BTreeMap::insert
BTreeInsert(map, k, v) == [x \in DOMAIN map \cup {k} |-> IF x = k THEN v ELSE map[x]]

\* BTreeMap::into_values().collect(): the values in ascending key order
RECURSIVE IntoValues(_)
IntoValues(map) ==
    IF DOMAIN map = {} THEN <<>>
    ELSE LET k == CHOOSE x \in DOMAIN map : \A y \in DOMAIN map : y = x \/ StrLess(x, y)
         IN  <<map[k]>> \o IntoValues([x \in DOMAIN map \ {k} |-> map[x]])

\* the loop of detect_all over the entries from the i-th on
RECURSIVE DetectLoop(_, _, _)
DetectLoop(dir, i, best_by_id) ==
    IF i > Len(dir) THEN best_by_id
    ELSE LET name == dir[i].name
             device == PeripheralNew(dir, name)
             id == stable_id(device)
         IN  IF ~IsPeripheralName(name) THEN DetectLoop(dir, i + 1, best_by_id)
             ELSE IF id \notin DOMAIN best_by_id
             THEN DetectLoop(dir, i + 1, BTreeInsert(best_by_id, id, device))
             ELSE IF Replaces(device, best_by_id[id])
             THEN DetectLoop(dir, i + 1, BTreeInsert(best_by_id, id, device))
             ELSE DetectLoop(dir, i + 1, best_by_id)

EmptyMap == [x \in {} |-> None]

detect_all_without_dedupe(dir) ==
    LET matched == SelectSeq(dir, LAMBDA e : IsPeripheralName(e.name))
    IN  [i \in 1..Len(matched) |-> PeripheralNew(dir, matched[i].name)]

detect_all(dir) == IntoValues(DetectLoop(dir, 1, EmptyMap))


(***************************************************************************)
(* SpecDetect: devices come and go under /sys/class/power_supply and      *)
(* PeripheralBattery::detect_all scans the directory.                      *)
(***************************************************************************)
MaxEntries == 2

DetectNames == {"hidpp_battery_0", "hidpp_battery_1", "hid-0003", "usb_mouse", "BAT0"}

\* what a device's files can hold: three identities (a serial number; no usable
\* serial but a manufacturer and a model; none of them) and readings that score
\* 30, 16, 16 and 0
Profiles ==
    { [serial_number |-> "S1\n", manufacturer |-> "Logitech\n", model_name |-> "G Pro\n",
       online |-> "1\n", voltage_now |-> "4229000\n", capacity |-> "85\n",
       status |-> "Discharging\n"],
      [serial_number |-> "S1\n", manufacturer |-> "Logitech\n", model_name |-> "G Pro\n",
       online |-> "1\n", capacity |-> "0\n", status |-> "Unknown\n"],
      [serial_number |-> " S1\n", model_name |-> "G Pro\n",
       online |-> "0\n", voltage_now |-> "3900000\n", capacity |-> "40\n",
       status |-> "charging\n"],
      [serial_number |-> "Unknown\n", manufacturer |-> "Logitech\n", model_name |-> "G Pro\n",
       online |-> "1\n", capacity |-> "0\n", status |-> "Unknown\n"],
      [manufacturer |-> "Logitech\n", model_name |-> "G Pro\n",
       online |-> "0\n", voltage_now |-> "3900000\n", capacity |-> "40\n",
       status |-> "charging\n"],
      [serial_number |-> "\n", model_name |-> "G Pro\n",
       capacity |-> "n/a\n", status |-> "unknown\n"] }

DetectEntries == {[name |-> n, files |-> Files(p)] : n \in DetectNames, p \in Profiles}

InitDetect ==
    /\ sysfs = <<>>
    /\ dmi = NoDmi
    /\ platform = {}
    /\ lang = "fr"
    /\ cards = NotStarted
    /\ app = NoWindow
    /\ host = FreshHost
    /\ call = NoCall
    /\ ret = None

\* a device appears
Plug(entries, max) ==
    /\ Len(sysfs) < max
    /\ \E e \in entries :
        /\ e.name \notin EntryNames(sysfs)
        /\ \E at \in 0..Len(sysfs) :
            sysfs' = SubSeq(sysfs, 1, at) \o <<e>> \o SubSeq(sysfs, at + 1, Len(sysfs))
    /\ call' = NoCall
    /\ ret' = None
    /\ UNCHANGED <<dmi, platform, lang, cards, app, host>>

\* a device disappears
Unplug ==
    /\ \E at \in 1..Len(sysfs) :
        sysfs' = SubSeq(sysfs, 1, at - 1) \o SubSeq(sysfs, at + 1, Len(sysfs))
    /\ call' = NoCall
    /\ ret' = None
    /\ UNCHANGED <<dmi, platform, lang, cards, app, host>>

DetectAll ==
    /\ call' = [fn |-> "detect_all"]
    /\ ret' = Some(detect_all(sysfs))
    /\ UNCHANGED <<sysfs, dmi, platform, lang, cards, app, host>>

NextDetect == Plug(DetectEntries, MaxEntries) \/ Unplug \/ DetectAll

SpecDetect == InitDetect /\ [][NextDetect]_vars

\* the entries detect_all's filter lets through, as it reads them
MatchedDevices(dir) ==
    {PeripheralNew(dir, dir[i].name) : i \in {j \in 1..Len(dir) : IsPeripheralName(dir[j].name)}}

Returned == {ret.val[i] : i \in 1..Len(ret.val)}

\* C1: for each stable id among the matched entries, the device detect_all
\* returns for it is an entry of that id with the highest dedupe_score and,
\* among those with that score, the lexicographically smallest name.
C1_BestScoredPerId ==
    call.fn = "detect_all" =>
        \A d \in Returned :
            /\ d \in MatchedDevices(sysfs)
            /\ \A e \in MatchedDevices(sysfs) :
                 stable_id(e) = stable_id(d) /\ e.name # d.name =>
                    \/ dedupe_score(e) < dedupe_score(d)
                    \/ dedupe_score(e) = dedupe_score(d) /\ StrLess(d.name, e.name)

\* two entries of one id tie on the score, and detect_all kept the one that
\* comes later in the directory
C1_Witness ==
    /\ call.fn = "detect_all"
    /\ Len(sysfs) = 2
    /\ \E d \in Returned :
        /\ d.name = sysfs[2].name
        /\ LET e == PeripheralNew(sysfs, sysfs[1].name)
           IN  /\ IsPeripheralName(e.name)
               /\ stable_id(e) = stable_id(d)
               /\ dedupe_score(e) = dedupe_score(d)
               /\ e.status # d.status

\* C2: detect_all returns exactly one device per stable id of a matched entry.
C2_OnePerStableId ==
    call.fn = "detect_all" =>
        /\ \A i, j \in 1..Len(ret.val) : stable_id(ret.val[i]) = stable_id(ret.val[j]) => i = j
        /\ {stable_id(d) : d \in Returned} = {stable_id(e) : e \in MatchedDevices(sysfs)}

\* two matched entries share an id, a third id is there too
C2_Witness ==
    /\ call.fn = "detect_all"
    /\ Cardinality(MatchedDevices(sysfs)) = 2
    /\ Len(ret.val) = 1


(***************************************************************************)
(* SpecPeripheral: the methods of a PeripheralBattery value, whatever its *)
(* fields hold (the fields are public: a value need not come from new).   *)
(***************************************************************************)
PeripheralValues ==
    [name          : {"hidpp_battery_0", "hid-0003"},
     manufacturer  : {"Logitech", "Unknown", "unknown"},
     model_name    : {"G Pro", " Unknown "},
     status        : {"Unknown", "unknown ", " Charging", "CHARGING", "Discharging", ""},
     capacity_percent : {0, 1, 100},
     voltage_now   : {None, Some(0), Some(4229000)},
     serial_number : {None, Some(""), Some("Unknown"), Some(" S1 "), Some("S1"), Some("unknown")},
     online        : BOOLEAN,
     device_type   : {"Battery"},
     scope         : {"Device"}]

InitPeripheral ==
    /\ sysfs = <<>>
    /\ dmi = NoDmi
    /\ platform = {}
    /\ lang = "fr"
    /\ cards = NotStarted
    /\ app = NoWindow
    /\ host = FreshHost
    /\ call = NoCall
    /\ ret = None

DedupeScore ==
    /\ call = NoCall
    /\ \E p \in PeripheralValues :
        /\ call' = [fn |-> "dedupe_score", self |-> p]
        /\ ret' = Some(dedupe_score(p))
    /\ UNCHANGED <<sysfs, dmi, platform, lang, cards, app, host>>

StableId ==
    /\ call = NoCall
    /\ \E p \in PeripheralValues :
        /\ call' = [fn |-> "stable_id", self |-> p]
        /\ ret' = Some(stable_id(p))
    /\ UNCHANGED <<sysfs, dmi, platform, lang, cards, app, host>>

\* the caller takes the result
Return ==
    /\ call # NoCall
    /\ call' = NoCall
    /\ ret' = None
    /\ UNCHANGED <<sysfs, dmi, platform, lang, cards, app, host>>

NextPeripheral == DedupeScore \/ StableId \/ Return

SpecPeripheral == InitPeripheral /\ [][NextPeripheral]_vars

\* C3: dedupe_score is the sum of five terms: 16 if online, 8 if voltage_now is
\* present, 4 if capacity_percent > 0, 2 if the trimmed status is not "Unknown"
\* and 2 if it is "Charging" (both ASCII case-insensitive); it is within 0..32.
C3_FiveTermScore ==
    call.fn = "dedupe_score" =>
        LET p == call.self
            status == ToLowercase(Trim(p.status))
            term(cond, points) == IF cond THEN points ELSE 0
        IN  /\ ret.val = term(p.online, 16) + term(p.voltage_now # None, 8)
                          + term(p.capacity_percent > 0, 4)
                          + term(status # "unknown", 2) + term(status = "charging", 2)
            /\ ret.val \in 0..32

\* an offline device that reports no voltage and no capacity scores 4 for
\* its status alone
C3_Witness ==
    /\ call.fn = "dedupe_score"
    /\ ~call.self.online /\ call.self.voltage_now = None /\ call.self.capacity_percent = 0
    /\ call.self.status = " Charging"
    /\ ret.val = 4

UsableSerial(p) ==
    /\ p.serial_number # None
    /\ Trim(p.serial_number.val) # ""
    /\ Trim(p.serial_number.val) # "Unknown"

\* C4: stable_id is "serial:<serial>" when the trimmed serial number is
\* present, non-empty and not "Unknown"; otherwise "mm:<manufacturer>|<model>"
\* when neither trimmed one is "Unknown"; otherwise "name:<device name>". So a
\* usable serial decides the id whatever the name, manufacturer and model are.
C4_StableIdPrefersSerial ==
    call.fn = "stable_id" =>
        LET p == call.self
        IN  /\ UsableSerial(p) => ret.val = "serial:" \o Trim(p.serial_number.val)
            /\ ~UsableSerial(p) /\ Trim(p.manufacturer) # "Unknown"
                    /\ Trim(p.model_name) # "Unknown" =>
                  ret.val = "mm:" \o Trim(p.manufacturer) \o "|" \o Trim(p.model_name)
            /\ ~UsableSerial(p) /\ (Trim(p.manufacturer) = "Unknown"
                    \/ Trim(p.model_name) = "Unknown") =>
                  ret.val = "name:" \o p.name
            /\ UsableSerial(p) =>
                  \A n \in {"hidpp_battery_0", "hid-0003"}, m \in {"Logitech", "Unknown"},
                     k \in {"G Pro", " Unknown "}, sn \in {p.serial_number, Some("S1")} :
                      LET q == [p EXCEPT !.name = n, !.manufacturer = m, !.model_name = k,
                                         !.serial_number = sn]
                      IN  Trim(sn.val) = Trim(p.serial_number.val) => stable_id(q) = ret.val

\* a device with a serial number, a manufacturer and a model
C4_Witness ==
    /\ call.fn = "stable_id"
    /\ call.self.serial_number = Some(" S1 ")
    /\ call.self.manufacturer = "Logitech" /\ call.self.model_name = "G Pro"
    /\ ret.val = "serial:S1"


(***************************************************************************)
(* core/i18n.rs: the keys the peripherals tab shows. The module is ASCII: *)
(* the table's accents and check marks are left out of the texts.         *)
(***************************************************************************)
TRANSLATIONS ==
    [fr |-> [full |-> "Pleine", charging |-> "En charge", discharging |-> "En decharge",
             unknown |-> "Inconnu", connected |-> "Connecte", disconnected |-> "Deconnecte",
             app_title |-> "Gestionnaire de Batterie", language_fr |-> "Francais",
             not_charging |-> "Ne charge pas",
             settings_applied |-> "Reglages appliques (redemarrage requis)",
             alarm |-> "Alarme", service |-> "Service", enabled |-> "active",
             disabled |-> "desactive", error |-> "Erreur",
             error_execution |-> "Erreur lors de l'execution",
             warning_not_persistent |->
                 "Sans service, ces reglages seront perdus au prochain redemarrage.",
             error_start_greater_stop |->
                 "Erreur: le seuil de debut doit etre inferieur au seuil de fin"],
     en |-> [full |-> "Full", charging |-> "Charging", discharging |-> "Discharging",
             unknown |-> "Unknown", connected |-> "Connected", disconnected |-> "Disconnected",
             app_title |-> "Battery Manager", language_fr |-> "Francais",
             not_charging |-> "Not charging",
             settings_applied |-> "Settings applied (reboot required)",
             alarm |-> "Alarm", service |-> "Service", enabled |-> "enabled",
             disabled |-> "disabled", error |-> "Error",
             error_execution |-> "Execution error",
             warning_not_persistent |->
                 "Without the service, these settings will be lost after reboot.",
             error_start_greater_stop |->
                 "Error: start threshold must be lower than stop threshold"]]

\* a t that falls back on the French table, the default language
t_french_fallback(key) ==
    IF lang \in DOMAIN TRANSLATIONS /\ key \in DOMAIN TRANSLATIONS[lang] /\ lang = "fr"
    THEN TRANSLATIONS[lang][key]
    ELSE IF key \in DOMAIN TRANSLATIONS["fr"] THEN TRANSLATIONS["fr"][key]
    ELSE key

t(key) ==
    IF lang \in DOMAIN TRANSLATIONS /\ key \in DOMAIN TRANSLATIONS[lang]
    THEN TRANSLATIONS[lang][key]
    ELSE key

\* a set_language that takes any spelling of "en"
set_language_any_case(l) == IF ToLowercase(Trim(l)) = "en" THEN "en" ELSE "fr"

\* the value set_language stores in CURRENT_LANG
set_language(l) == IF l = "en" THEN "en" ELSE "fr"

get_language == lang

(***************************************************************************)
(* ui/peripherals_tab.rs: one card per peripheral detected at startup. A  *)
(* card is its labels' texts and CSS classes and its last_capacity.        *)
(***************************************************************************)
\* format!("{}", n) of an unsigned integer
RECURSIVE FormatInt(_)
FormatInt(n) ==
    IF n < 10 THEN Char(Digits, n + 1)
    ELSE FormatInt(n \div 10) \o Char(Digits, (n % 10) + 1)

\* format!("{:.2} V", v as f64 / 1_000_000.0); the model's voltages are not
\* half-way between two hundredths, where the binary fraction decides
get_voltage_string(p) ==
    IF ~p.voltage_now.some THEN "N/A"
    ELSE LET hundredths == (p.voltage_now.val + 5000) \div 10000
             frac == hundredths % 100
         IN  FormatInt(hundredths \div 100) \o "."
             \o (IF frac < 10 THEN "0" ELSE "") \o FormatInt(frac) \o " V"

get_capacity_css_class(p) ==
    IF p.capacity_percent >= 80 THEN "color-success"
    ELSE IF p.capacity_percent >= 20 THEN "color-warning"
    ELSE "color-danger"

get_status_css_class(p) ==
    IF EqIgnoreAsciiCase(p.status, "Charging") THEN "color-primary"
    ELSE IF EqIgnoreAsciiCase(p.status, "Full") THEN "color-success"
    ELSE "color-warning"

\* the text and the class update_value_from_peripheral gives the status label
\* a status that ignores the capacity remembered by the card
StatusShownWithoutDelta(p, previous_capacity) ==
    LET raw_status == Trim(p.status)
    IN  IF EqIgnoreAsciiCase(raw_status, "Full") \/ p.capacity_percent >= 100
        THEN <<t("full"), "color-success">>
        ELSE IF EqIgnoreAsciiCase(raw_status, "Charging")
        THEN <<t("charging"), "color-primary">>
        ELSE IF EqIgnoreAsciiCase(raw_status, "Discharging")
        THEN <<t("discharging"), "color-warning">>
        ELSE IF EqIgnoreAsciiCase(raw_status, "Unknown") /\ ~p.online
                /\ p.capacity_percent < 100
        THEN <<t("charging") \o " (?)", "color-primary">>
        ELSE IF EqIgnoreAsciiCase(raw_status, "Unknown")
        THEN <<t("unknown"), "color-warning">>
        ELSE <<raw_status, get_status_css_class(p)>>

StatusShown(p, previous_capacity) ==
    LET raw_status == Trim(p.status)
    IN  IF EqIgnoreAsciiCase(raw_status, "Full") \/ p.capacity_percent >= 100
        THEN <<t("full"), "color-success">>
        ELSE IF EqIgnoreAsciiCase(raw_status, "Charging")
        THEN <<t("charging"), "color-primary">>
        ELSE IF EqIgnoreAsciiCase(raw_status, "Discharging")
        THEN <<t("discharging"), "color-warning">>
        ELSE IF EqIgnoreAsciiCase(raw_status, "Unknown") /\ ~p.online
                /\ p.capacity_percent < 100
        THEN <<t("charging") \o " (?)", "color-primary">>
        ELSE IF EqIgnoreAsciiCase(raw_status, "Unknown")
        THEN IF previous_capacity.some /\ p.capacity_percent > previous_capacity.val
             THEN <<t("charging"), "color-primary">>
             ELSE IF previous_capacity.some /\ p.capacity_percent < previous_capacity.val
             THEN <<t("discharging"), "color-warning">>
             ELSE <<t("unknown"), "color-warning">>
        ELSE <<raw_status, get_status_css_class(p)>>

update_value_from_peripheral(widgets, p) ==
    LET shown == StatusShown(p, widgets.last_capacity)
    IN  [widgets EXCEPT
            !.name_value = p.name,
            !.last_capacity = Some(p.capacity_percent),
            !.capacity_value = "<span size='large' weight='bold'>"
                               \o FormatInt(p.capacity_percent) \o " %</span>",
            !.capacity_class = get_capacity_css_class(p),
            !.status_value = shown[1],
            !.status_class = shown[2],
            !.connection_value = IF is_connected(p) THEN t("connected") ELSE t("disconnected"),
            !.connection_class = IF is_connected(p) THEN "color-success" ELSE "color-danger",
            !.voltage_value = get_voltage_string(p),
            !.voltage_class = IF p.voltage_now.some THEN "color-primary" ELSE "color-warning"]

\* the card build_peripherals_tab makes for one peripheral: the static labels
\* (manufacturer, model, serial) and the PeripheralDeviceWidgets, updated once
NewCard(p) ==
    update_value_from_peripheral(
        [manufacturer_label |-> p.manufacturer,
         model_label      |-> p.model_name,
         serial_value     |-> p.serial_number,
         stable_id        |-> stable_id(p),
         capacity_value   |-> "",
         capacity_class   |-> "",
         status_value     |-> p.status,
         status_class     |-> "",
         connection_value |-> "",
         connection_class |-> "",
         voltage_value    |-> "",
         voltage_class    |-> "",
         name_value       |-> p.name,
         last_capacity    |-> None], p)

build_peripherals_tab(peripherals) == [i \in 1..Len(peripherals) |-> NewCard(peripherals[i])]

\* peripherals.iter().find(|p| p.stable_id() == id)
FindByStableId(peripherals, id) ==
    LET hits == {i \in 1..Len(peripherals) : stable_id(peripherals[i]) = id}
    IN  IF hits = {} THEN None
        ELSE Some(peripherals[CHOOSE i \in hits : \A j \in hits : i <= j])

\* the else branch of update_peripherals_tab: the device disappeared
\* a disconnection that also forgets the capacity
MarkDisconnectedAndCleared(widgets) ==
    [widgets EXCEPT
        !.status_value = "--",
        !.status_class = "color-warning",
        !.connection_value = t("disconnected"),
        !.connection_class = "color-danger",
        !.voltage_value = "N/A",
        !.voltage_class = "color-warning",
        !.capacity_value = "",
        !.last_capacity = None]

MarkDisconnected(widgets) ==
    [widgets EXCEPT
        !.status_value = "--",    \* an em dash in the source
        !.status_class = "color-warning",
        !.connection_value = t("disconnected"),
        !.connection_class = "color-danger",
        !.voltage_value = "N/A",
        !.voltage_class = "color-warning"]

UpdateCardByName(devices, peripherals, i) ==
    LET hits == {j \in 1..Len(peripherals) : peripherals[j].name = devices[i].name_value}
    IN  IF hits # {}
        THEN update_value_from_peripheral(devices[i], peripherals[CHOOSE j \in hits : TRUE])
        ELSE MarkDisconnected(devices[i])

UpdateCard(devices, peripherals, i) ==
    LET found == FindByStableId(peripherals, devices[i].stable_id)
    IN  IF found.some
        THEN update_value_from_peripheral(devices[i], found.val)
        ELSE MarkDisconnected(devices[i])

update_peripherals_tab(devices, peripherals) ==
    [i \in 1..Len(devices) |-> UpdateCard(devices, peripherals, i)]


(***************************************************************************)
(* SpecCards: build_ui builds the peripherals tab from what detect_all    *)
(* finds at startup; afterwards devices come, go and change their sysfs   *)
(* name and readings, and the timer calls update_peripherals_tab.         *)
(***************************************************************************)
MaxCardEntries == 1

CardNames == {"hidpp_battery_0", "hidpp_battery_1", "wacom_battery_0"}

CardProfiles ==
    { [serial_number |-> "S1\n", manufacturer |-> "Logitech\n", model_name |-> "G Pro\n",
       online |-> "1\n", voltage_now |-> "4229000\n", capacity |-> "85\n",
       status |-> "Discharging\n"],
      [serial_number |-> "S1\n", manufacturer |-> "Logitech\n", model_name |-> "G Pro\n",
       online |-> "0\n", capacity |-> "86\n", status |-> "Charging\n"],
      [manufacturer |-> "Logitech\n", model_name |-> "K270\n",
       online |-> "1\n", capacity |-> "40\n", status |-> "Unknown\n"],
      [serial_number |-> "Unknown\n", manufacturer |-> "Logitech\n", model_name |-> "K270\n",
       online |-> "1\n", voltage_now |-> "3900000\n", capacity |-> "41\n",
       status |-> "Unknown\n"],
      [model_name |-> "M185\n", online |-> "1\n", capacity |-> "60\n",
       status |-> "Discharging\n"] }

CardEntries == {[name |-> n, files |-> Files(p)] : n \in CardNames, p \in CardProfiles}

InitCards ==
    /\ sysfs = <<>>
    /\ dmi = NoDmi
    /\ platform = {}
    /\ lang = "fr"
    /\ cards = NotStarted
    /\ app = NoWindow
    /\ host = FreshHost
    /\ call = NoCall
    /\ ret = None

\* a device changes its sysfs name and, maybe, its readings
Churn ==
    /\ \E at \in 1..Len(sysfs), e \in CardEntries :
        /\ e # sysfs[at]
        /\ e.name \notin EntryNames(sysfs) \ {sysfs[at].name}
        /\ sysfs' = [sysfs EXCEPT ![at] = e]
    /\ call' = NoCall
    /\ ret' = None
    /\ UNCHANGED <<dmi, platform, lang, cards, app, host>>

\* build_ui: the peripherals tab exists only if a peripheral is detected
BuildUi ==
    /\ cards = NotStarted
    /\ LET peripherals == detect_all(sysfs)
       IN  cards' = IF Len(peripherals) = 0 THEN None
                    ELSE Some(build_peripherals_tab(peripherals))
    /\ call' = [fn |-> "build_ui"]
    /\ ret' = None
    /\ UNCHANGED <<sysfs, dmi, platform, lang, app, host>>

\* the timer's callback reaches update_peripherals_tab
Refresh ==
    /\ cards # NotStarted
    /\ cards.some
    /\ cards' = Some(update_peripherals_tab(cards.val, detect_all(sysfs)))
    /\ call' = [fn |-> "update_peripherals_tab", before |-> cards.val]
    /\ ret' = None
    /\ UNCHANGED <<sysfs, dmi, platform, lang, app, host>>

NextCards == Plug(CardEntries, MaxCardEntries) \/ Unplug \/ Churn \/ BuildUi \/ Refresh

SpecCards == InitCards /\ [][NextCards]_vars

\* a serial number that identifies a device: present, not empty, not "Unknown"
Usable(serial) == serial.some /\ Trim(serial.val) \notin {"", "Unknown"}

\* device d is the peripheral a card was built for: the same serial number or,
\* when there is none, the same manufacturer and model (the card's static
\* labels hold what its peripheral reported at startup)
SameDeviceAsCard(card, d) ==
    \/ /\ Usable(card.serial_value) /\ Usable(d.serial_number)
       /\ Trim(d.serial_number.val) = Trim(card.serial_value.val)
    \/ /\ ~Usable(card.serial_value) /\ ~Usable(d.serial_number)
       /\ d.manufacturer = card.manufacturer_label
       /\ d.model_name = card.model_label

\* the card shows device d and is not marked disconnected
Shows(card, d) ==
    /\ card.name_value = d.name
    /\ card.last_capacity = Some(d.capacity_percent)
    /\ card.capacity_value =
         "<span size='large' weight='bold'>" \o FormatInt(d.capacity_percent) \o " %</span>"
    /\ card.voltage_value = get_voltage_string(d)
    /\ card.status_value # "--"
    /\ card.connection_value = IF is_connected(d) THEN t("connected") ELSE t("disconnected")

\* after a refresh: card k's peripheral is in sysfs as d, the only matched
\* entry that is this peripheral, under another name than the card showed
RenamedSince(k, d) ==
    /\ SameDeviceAsCard(call.before[k], d)
    /\ d.name # call.before[k].name_value
    /\ \A d2 \in MatchedDevices(sysfs) : SameDeviceAsCard(call.before[k], d2) => d2 = d

\* C5 as stated: a peripheral whose sysfs name changed while its serial number
\* (or, lacking one, its manufacturer and model) stayed the same is shown by
\* the card built for it at startup, with its new name and values, and the
\* card is not marked disconnected.
C5_AnyIdentityKeepsCard ==
    call.fn = "update_peripherals_tab" =>
        \A k \in 1..Len(cards.val) : \A d \in MatchedDevices(sysfs) :
            RenamedSince(k, d) => Shows(cards.val[k], d)

\* C5, amended: the same, for a peripheral that has a usable serial number
\* or, lacking one, a manufacturer and a model that are both known.
C5_IdentifiedDeviceKeepsCard ==
    call.fn = "update_peripherals_tab" =>
        \A k \in 1..Len(cards.val) : \A d \in MatchedDevices(sysfs) :
            /\ RenamedSince(k, d)
            /\ \/ Usable(call.before[k].serial_value)
               \/ /\ call.before[k].manufacturer_label # "Unknown"
                  /\ call.before[k].model_label # "Unknown"
            => Shows(cards.val[k], d)

\* a device without a usable serial number came back under another name with
\* another capacity, and its card follows it
C5_Witness ==
    /\ call.fn = "update_peripherals_tab"
    /\ \E k \in 1..Len(cards.val) : \E d \in MatchedDevices(sysfs) :
        /\ RenamedSince(k, d)
        /\ ~Usable(call.before[k].serial_value)
        /\ call.before[k].last_capacity # Some(d.capacity_percent)
        /\ Shows(cards.val[k], d)


(***************************************************************************)
(* core/battery.rs: BatteryInfo::new. The model keeps every file the      *)
(* function reads and every integer; health_percent, wear_percent and the *)
(* value of time_remaining_minutes are f32 arithmetic and are left out,   *)
(* but for the u64 subtraction the remaining time starts from.            *)
(***************************************************************************)
BatteryFileNames ==
    {"manufacturer", "model_name", "technology", "status", "capacity_level", "capacity",
     "charge_now", "energy_now", "charge_full", "energy_full", "charge_full_design",
     "energy_full_design", "current_now", "voltage_now", "cycle_count",
     "charge_start_threshold", "charge_control_start_threshold", "charge_stop_threshold",
     "charge_control_end_threshold", "alarm"}

BatteryFiles(present) ==
    [f \in BatteryFileNames |-> IF f \in DOMAIN present THEN Some(present[f]) ELSE None]

\* BatteryInfo::read_sys_file of <base_path>/<filename>
read_sys_file(dir, battery_name, filename) ==
    LET content == ReadToString(dir, battery_name, filename)
    IN  IF content.some THEN Some(Trim(content.val)) ELSE None

\* a.or_else(|| b): b is read only when a is None
OrElseReads(dir, battery_name, first) ==
    IF read_sys_file(dir, battery_name, first).some THEN 1 ELSE 2
OrElse(dir, battery_name, first, second) ==
    IF read_sys_file(dir, battery_name, first).some
    THEN read_sys_file(dir, battery_name, first)
    ELSE read_sys_file(dir, battery_name, second)

\* .and_then(|s| s.parse().ok()); the model's files hold at most nine digits,
\* which every integer type wider than u8 holds
AndThenParse(opt, max) == IF opt.some THEN ParseUnsigned(opt.val, max) ELSE None

InvalidName(msg) == [kind |-> "InvalidBatteryName", name |-> msg, reads |-> 0, commands |-> 0]

\* the name checks of BatteryInfo::new: the error returned, or None
ValidatePrefixOnly(battery_name) ==
    IF ~StartsWith(battery_name, "BAT") THEN Some(InvalidName(battery_name)) ELSE None

Validate(battery_name) ==
    IF ~StartsWith(battery_name, "BAT")
    THEN Some(InvalidName(battery_name))
    ELSE IF Contains(battery_name, "..") \/ Contains(battery_name, "/")
            \/ Contains(battery_name, "\\")
    THEN Some(InvalidName("Invalid battery name (potential path traversal): " \o battery_name))
    ELSE None

\* the fields BatteryInfo::new reads, after the name checks
ReadBattery(dir, battery_name, service_active) ==
    LET str(f) == UnwrapOr(read_sys_file(dir, battery_name, f), "Inconnu")
        num(f, max, default) ==
            UnwrapOr(AndThenParse(read_sys_file(dir, battery_name, f), max), default)
        either(f, g, default) ==
            UnwrapOr(AndThenParse(OrElse(dir, battery_name, f, g), 999999999), default)
    IN  [name               |-> battery_name,
         manufacturer       |-> str("manufacturer"),
         model_name         |-> str("model_name"),
         technology         |-> str("technology"),
         status             |-> str("status"),
         capacity_level     |-> str("capacity_level"),
         capacity_percent   |-> num("capacity", U8Max, 0),
         charge_now         |-> either("charge_now", "energy_now", 0),
         charge_full        |-> either("charge_full", "energy_full", 1),
         charge_full_design |-> either("charge_full_design", "energy_full_design", 1),
         current_now        |-> num("current_now", 999999999, 0),
         voltage_now        |-> num("voltage_now", 999999999, 0),
         cycle_count        |-> num("cycle_count", 999999999, 0),
         charge_start_threshold |->
             AndThenParse(OrElse(dir, battery_name, "charge_start_threshold",
                                 "charge_control_start_threshold"), U8Max),
         charge_stop_threshold |->
             AndThenParse(OrElse(dir, battery_name, "charge_stop_threshold",
                                 "charge_control_end_threshold"), U8Max),
         alarm              |-> AndThenParse(read_sys_file(dir, battery_name, "alarm"), 999999999),
         service_active     |-> service_active]

\* how many files the function has read when it returns Ok
ReadsOfNew(dir, battery_name) ==
    10 + OrElseReads(dir, battery_name, "charge_now")
       + OrElseReads(dir, battery_name, "charge_full")
       + OrElseReads(dir, battery_name, "charge_full_design")
       + OrElseReads(dir, battery_name, "charge_start_threshold")
       + OrElseReads(dir, battery_name, "charge_stop_threshold")

\* time_remaining_minutes: charge_full - charge_now is a u64 subtraction; when
\* charge_now is the larger it panics in a build with overflow checks and
\* wraps in a build without
RemainingOutcomes(info) ==
    IF info.current_now > 0 /\ info.status = "Discharging" THEN {"some"}
    ELSE IF info.current_now > 0 /\ info.status = "Charging"
    THEN IF info.charge_full >= info.charge_now THEN {"some"} ELSE {"panic", "wrapped"}
    ELSE {"none"}

\* what BatteryInfo::new(battery_name) can do, systemctl is-active answering
\* service_active
BatteryNewOutcomes(dir, battery_name, service_active) ==
    IF Validate(battery_name).some THEN {Validate(battery_name).val}
    ELSE LET info == ReadBattery(dir, battery_name, service_active)
         IN  { IF r = "panic"
               THEN [kind |-> "panic", reads |-> 9 + OrElseReads(dir, battery_name, "charge_now")
                                                   + OrElseReads(dir, battery_name, "charge_full")
                                                   + OrElseReads(dir, battery_name, "charge_full_design"),
                     commands |-> 0]
               ELSE [kind |-> "Ok", info |-> info, time_remaining_minutes |-> r,
                     reads |-> ReadsOfNew(dir, battery_name), commands |-> 1]
               : r \in RemainingOutcomes(info) }


(***************************************************************************)
(* SpecBattery: batteries come and go under /sys/class/power_supply and   *)
(* BatteryInfo::new is called with any name.                               *)
(***************************************************************************)
MaxBatteries == 1

\* the names BatteryInfo::new is called with
BatteryNames ==
    {"BAT0", "BAT1", "BAT", "BATT", "", "AC0", "invalid", "battery", "bat0", " BAT0",
     "../BAT0", "BAT0/../AC0", "BAT..", "BAT0\\AC0", "BAT0/", "hid-BAT0"}

BatteryProfiles ==
    { [status |-> "Unknown\n"],
      [manufacturer |-> "ASUSTeK\n", model_name |-> "ASUS Battery\n", technology |-> "Li-ion\n",
       status |-> "Discharging\n", capacity_level |-> "Normal\n", capacity |-> "75\n",
       charge_now |-> "3000000\n", charge_full |-> "4000000\n",
       charge_full_design |-> "5000000\n", current_now |-> "1500000\n",
       voltage_now |-> "11400000\n", cycle_count |-> "120\n",
       charge_control_end_threshold |-> "80\n", alarm |-> "400000\n"],
      [manufacturer |-> "LGC\n", status |-> "Charging\n", capacity |-> "50\n",
       energy_now |-> "2000000\n", energy_full |-> "4000000\n",
       energy_full_design |-> "4500000\n", current_now |-> "1000000\n",
       charge_start_threshold |-> "40\n", charge_stop_threshold |-> "80\n",
       charge_control_start_threshold |-> "45\n", charge_control_end_threshold |-> "85\n"],
      [status |-> "Full\n", capacity |-> "300\n", charge_now |-> "\n",
       energy_now |-> "2000000\n", charge_full |-> "full\n", energy_full_design |-> "-1\n",
       current_now |-> "-500\n", voltage_now |-> "12.1\n", cycle_count |-> "n/a\n",
       charge_control_start_threshold |-> "off\n", charge_stop_threshold |-> "256\n",
       alarm |-> "\n"],
      [status |-> "Charging\n", capacity |-> "100\n", charge_now |-> "4010000\n",
       charge_full |-> "4000000\n", charge_full_design |-> "5000000\n",
       current_now |-> "20000\n"],
      [status |-> "Charging\n", capacity |-> "60\n", charge_now |-> "2400000\n",
       current_now |-> "900000\n"] }

BatteryEntries ==
    {[name |-> n, files |-> BatteryFiles(p)] : n \in {"BAT0", "BAT1"}, p \in BatteryProfiles}

InitBattery ==
    /\ sysfs = <<>>
    /\ dmi = NoDmi
    /\ platform = {}
    /\ lang = "fr"
    /\ cards = NotStarted
    /\ app = NoWindow
    /\ host = FreshHost
    /\ call = NoCall
    /\ ret = None

BatteryNew ==
    /\ \E battery_name \in BatteryNames, service_active \in BOOLEAN :
        /\ call' = [fn |-> "BatteryInfo::new", battery_name |-> battery_name]
        /\ \E outcome \in BatteryNewOutcomes(sysfs, battery_name, service_active) :
            ret' = Some(outcome)
    /\ UNCHANGED <<sysfs, dmi, platform, lang, cards, app, host>>

NextBattery == Plug(BatteryEntries, MaxBatteries) \/ Unplug \/ BatteryNew

SpecBattery == InitBattery /\ [][NextBattery]_vars

\* C6: BatteryInfo::new returns InvalidBatteryName for every name that does
\* not start with "BAT", the error then carrying the name unchanged, and for
\* every name that contains "..", "/" or a backslash, and it has then read no
\* sysfs file and run no command.
C6_InvalidNameRejectedFirst ==
    call.fn = "BatteryInfo::new" =>
        LET name == call.battery_name
            prefixed == Len(name) >= 3 /\ SubSeq(name, 1, 3) = "BAT"
            traversal == \E i \in 1..Len(name) :
                            \/ Char(name, i) \in {"/", "\\"}
                            \/ i < Len(name) /\ Char(name, i) = "." /\ Char(name, i + 1) = "."
        IN  /\ ~prefixed => ret.val.kind = "InvalidBatteryName" /\ ret.val.name = name
            /\ traversal => ret.val.kind = "InvalidBatteryName"
            /\ ~prefixed \/ traversal => ret.val.reads = 0 /\ ret.val.commands = 0

\* a name that starts with BAT and climbs out of the directory is refused
\* while the battery it starts with is there
C6_Witness ==
    /\ call.fn = "BatteryInfo::new"
    /\ call.battery_name = "BAT0/../AC0"
    /\ "BAT0" \in EntryNames(sysfs)
    /\ ret.val.kind = "InvalidBatteryName"
    /\ ret.val.reads = 0

ValidName(name) ==
    /\ StartsWith(name, "BAT")
    /\ ~Contains(name, "..") /\ ~Contains(name, "/") /\ ~Contains(name, "\\")

\* the file a field is read from (the second when the first is missing) holds
\* no value: it is missing or does not parse
NoValue(name, first, second, max) ==
    LET a == ReadToString(sysfs, name, first)
        b == ReadToString(sysfs, name, second)
        source == IF a.some THEN a ELSE b
    IN  ~source.some \/ ~ParseUnsigned(Trim(source.val), max).some

\* every field whose file is missing or unparsable has its default
DefaultsApplied(name, info) ==
    /\ \A f \in {"manufacturer", "model_name", "technology", "status", "capacity_level"} :
          ~ReadToString(sysfs, name, f).some => info[f] = "Inconnu"
    /\ NoValue(name, "capacity", "capacity", U8Max) => info.capacity_percent = 0
    /\ NoValue(name, "charge_now", "energy_now", 999999999) => info.charge_now = 0
    /\ NoValue(name, "current_now", "current_now", 999999999) => info.current_now = 0
    /\ NoValue(name, "voltage_now", "voltage_now", 999999999) => info.voltage_now = 0
    /\ NoValue(name, "cycle_count", "cycle_count", 999999999) => info.cycle_count = 0
    /\ NoValue(name, "charge_full", "energy_full", 999999999) => info.charge_full = 1
    /\ NoValue(name, "charge_full_design", "energy_full_design", 999999999) =>
          info.charge_full_design = 1
    /\ NoValue(name, "charge_start_threshold", "charge_control_start_threshold", U8Max) =>
          info.charge_start_threshold = None
    /\ NoValue(name, "charge_stop_threshold", "charge_control_end_threshold", U8Max) =>
          info.charge_stop_threshold = None
    /\ NoValue(name, "alarm", "alarm", 999999999) => info.alarm = None

\* C7: for every name that starts with "BAT" and contains no "..", "/" or
\* backslash, BatteryInfo::new never returns InvalidBatteryName and returns
\* Ok, whatever files exist, each missing or unparsable file yielding its
\* default.
C7_ValidNameAlwaysOk ==
    call.fn = "BatteryInfo::new" /\ ValidName(call.battery_name) =>
        /\ ret.val.kind # "InvalidBatteryName"
        /\ ret.val.kind = "Ok"
        /\ DefaultsApplied(call.battery_name, ret.val.info)

\* what holds of C7 in every build: a valid name is never refused, and when
\* BatteryInfo::new returns, it returns Ok with the defaults applied
C7_OkHasDefaults ==
    call.fn = "BatteryInfo::new" /\ ValidName(call.battery_name) =>
        /\ ret.val.kind # "InvalidBatteryName"
        /\ ret.val.kind = "Ok" => DefaultsApplied(call.battery_name, ret.val.info)


(***************************************************************************)
(* core/vendor_detection.rs                                                *)
(***************************************************************************)
identify_vendor_thinkpad_as_written(manufacturer, product) ==
    IF Contains(manufacturer, "asus") \/ Contains(manufacturer, "asustek") THEN "Asus"
    ELSE IF Contains(manufacturer, "lenovo") \/ Contains(product, "thinkpad") THEN "Lenovo"
    ELSE IF Contains(manufacturer, "dell") THEN "Dell"
    ELSE IF Contains(manufacturer, "huawei") THEN "Huawei"
    ELSE IF Contains(manufacturer, "system76") THEN "System76"
    ELSE IF Contains(manufacturer, "tuxedo") THEN "Tuxedo"
    ELSE IF Contains(manufacturer, "samsung") THEN "Samsung"
    ELSE IF Contains(manufacturer, "sony") THEN "Sony"
    ELSE IF Contains(manufacturer, "lg") THEN "Lg"
    ELSE IF Contains(manufacturer, "micro-star") \/ Contains(manufacturer, "msi") THEN "Msi"
    ELSE IF Contains(manufacturer, "toshiba") THEN "Toshiba"
    ELSE IF Contains(manufacturer, "apple") THEN "Macbook"
    ELSE "Generic"

identify_vendor(manufacturer, product) ==
    IF Contains(manufacturer, "asus") \/ Contains(manufacturer, "asustek") THEN "Asus"
    ELSE IF Contains(manufacturer, "lenovo") \/ Contains(ToLowercase(product), "thinkpad")
    THEN "Lenovo"
    ELSE IF Contains(manufacturer, "dell") THEN "Dell"
    ELSE IF Contains(manufacturer, "huawei") THEN "Huawei"
    ELSE IF Contains(manufacturer, "system76") THEN "System76"
    ELSE IF Contains(manufacturer, "tuxedo") THEN "Tuxedo"
    ELSE IF Contains(manufacturer, "samsung") THEN "Samsung"
    ELSE IF Contains(manufacturer, "sony") THEN "Sony"
    ELSE IF Contains(manufacturer, "lg") THEN "Lg"
    ELSE IF Contains(manufacturer, "micro-star") \/ Contains(manufacturer, "msi") THEN "Msi"
    ELSE IF Contains(manufacturer, "toshiba") THEN "Toshiba"
    ELSE IF Contains(manufacturer, "apple") THEN "Macbook"
    ELSE "Generic"

VendorType ==
    {"Asus", "Lenovo", "Dell", "Huawei", "System76", "Tuxedo", "Samsung", "Sony", "Lg",
     "Msi", "Toshiba", "Macbook", "Generic"}

battery_base == "/sys/class/power_supply"
\* format!("{}/<bat>/<file>", battery_base) for each battery, in order
Paths(bats, file) == [i \in 1..Len(bats) |-> battery_base \o "/" \o bats[i] \o "/" \o file]
StartStopControl ==
    [start_paths |-> Paths(<<"BAT0", "BAT1">>, "charge_control_start_threshold"),
     stop_paths  |-> Paths(<<"BAT0", "BAT1">>, "charge_control_end_threshold")]
StopControlOnly ==
    [start_paths |-> <<>>,
     stop_paths  |-> Paths(<<"BAT0", "BAT1">>, "charge_control_end_threshold")]
HuaweiWmi == "/sys/devices/platform/huawei-wmi/charge_control_thresholds"

get_threshold_files_start_for_all(vendor) ==
    [start_paths |-> Paths(<<"BAT0", "BAT1">>, "charge_control_start_threshold"),
     stop_paths  |-> Paths(<<"BAT0", "BAT1">>, "charge_control_end_threshold")]

get_threshold_files(vendor) ==
    CASE vendor = "Asus" ->
            [start_paths |-> <<>>,
             stop_paths  |-> Paths(<<"BAT0", "BAT1", "BATC", "BATT">>,
                                   "charge_control_end_threshold")]
      [] vendor = "Lenovo" ->
            [start_paths |-> Paths(<<"BAT0", "BAT1">>, "charge_control_start_threshold")
                             \o Paths(<<"BAT0", "BAT1">>, "charge_start_threshold"),
             stop_paths  |-> Paths(<<"BAT0", "BAT1">>, "charge_control_end_threshold")
                             \o Paths(<<"BAT0", "BAT1">>, "charge_stop_threshold")]
      [] vendor = "Dell" -> StartStopControl
      [] vendor = "Huawei" -> [start_paths |-> <<HuaweiWmi>>, stop_paths |-> <<HuaweiWmi>>]
      [] vendor \in {"System76", "Tuxedo"} -> StartStopControl
      [] vendor = "Samsung" ->
            [start_paths |-> <<>>,
             stop_paths  |-> Paths(<<"BAT0", "BAT1">>, "battery_care_limit")]
      [] vendor = "Sony" ->
            [start_paths |-> <<>>,
             stop_paths  |-> Paths(<<"BAT0", "BAT1">>, "battery_care_limiter")]
      [] vendor = "Lg" -> StopControlOnly
      [] vendor = "Msi" -> StartStopControl
      [] vendor = "Toshiba" -> StopControlOnly
      [] vendor = "Macbook" ->
            [start_paths |-> Paths(<<"macsmc-battery">>, "charge_control_start_threshold"),
             stop_paths  |-> Paths(<<"macsmc-battery">>, "charge_control_end_threshold")]
      [] vendor = "Generic" ->
            [start_paths |-> Paths(<<"BAT0", "BAT1">>, "charge_control_start_threshold")
                             \o Paths(<<"BAT0", "BAT1">>, "charge_start_threshold"),
             stop_paths  |-> Paths(<<"BAT0", "BAT1">>, "charge_control_end_threshold")
                             \o Paths(<<"BAT0", "BAT1">>, "charge_stop_threshold")
                             \o Paths(<<"BAT0", "BAT1">>, "charge_end_threshold")]

\* fs::metadata(path).is_ok()
MetadataOk(dir, plat, path) ==
    \/ path \in plat
    \/ \E i \in 1..Len(dir) : \E f \in DOMAIN dir[i].files :
          /\ dir[i].files[f].some
          /\ path = battery_base \o "/" \o dir[i].name \o "/" \o f

\* paths.iter().any(|p| fs::metadata(p).is_ok())
AnyExists(dir, plat, paths) == \E i \in 1..Len(paths) : MetadataOk(dir, plat, paths[i])

read_dmi(ids, field) == IF ids[field].some THEN Some(Trim(ids[field].val)) ELSE None

detect(ids, dir, plat) ==
    LET manufacturer == ToLowercase(UnwrapOr(read_dmi(ids, "sys_vendor"), "Unknown"))
        product == UnwrapOr(read_dmi(ids, "product_name"), "Unknown")
        vendor_type == identify_vendor(manufacturer, product)
        threshold_files == get_threshold_files(vendor_type)
    IN  [manufacturer |-> manufacturer,
         product_name |-> product,
         supports_start_threshold |-> AnyExists(dir, plat, threshold_files.start_paths),
         supports_stop_threshold  |-> AnyExists(dir, plat, threshold_files.stop_paths)]


(***************************************************************************)
(* SpecVendorFn: identify_vendor, called as detect and the tests call it, *)
(* with a lower-case manufacturer.                                         *)
(***************************************************************************)
VendorWords ==
    {"asus", "asustek", "lenovo", "dell", "huawei", "system76", "tuxedo", "samsung",
     "sony", "lg", "micro-star", "msi", "toshiba", "apple"}

\* a manufacturer naming no vendor, one, or two
Manufacturers ==
    {"", "unknown", "qemu", "generic", "asustek computer inc.", "dell inc.", "algiz",
     "micro-star international co., ltd."}
    \cup VendorWords
    \cup {a \o " " \o b : a, b \in VendorWords}

Products == {"ThinkPad X1", "thinkpad", "THINKPAD T480", "XPS 13", "Unknown", "Think Pad"}

InitVendorFn ==
    /\ sysfs = <<>>
    /\ dmi = NoDmi
    /\ platform = {}
    /\ lang = "fr"
    /\ cards = NotStarted
    /\ app = NoWindow
    /\ host = FreshHost
    /\ call = NoCall
    /\ ret = None

IdentifyVendor ==
    /\ call = NoCall
    /\ \E manufacturer \in Manufacturers, product \in Products :
        /\ call' = [fn |-> "identify_vendor", manufacturer |-> manufacturer,
                     product |-> product]
        /\ ret' = Some(identify_vendor(manufacturer, product))
    /\ UNCHANGED <<sysfs, dmi, platform, lang, cards, app, host>>

NextVendorFn == IdentifyVendor \/ Return

SpecVendorFn == InitVendorFn /\ [][NextVendorFn]_vars

VendorOrder ==
    <<"Asus", "Lenovo", "Dell", "Huawei", "System76", "Tuxedo", "Samsung", "Sony", "Lg",
      "Msi", "Toshiba", "Macbook">>

VendorKeywords ==
    [Asus |-> {"asus", "asustek"}, Lenovo |-> {"lenovo"}, Dell |-> {"dell"},
     Huawei |-> {"huawei"}, System76 |-> {"system76"}, Tuxedo |-> {"tuxedo"},
     Samsung |-> {"samsung"}, Sony |-> {"sony"}, Lg |-> {"lg"},
     Msi |-> {"micro-star", "msi"}, Toshiba |-> {"toshiba"}, Macbook |-> {"apple"}]

VendorMatches(v, manufacturer, product) ==
    \/ \E k \in VendorKeywords[v] :
          \E i \in 1..Len(manufacturer) :
              i + Len(k) - 1 <= Len(manufacturer) /\ SubSeq(manufacturer, i, i + Len(k) - 1) = k
    \/ v = "Lenovo" /\ \E i \in 1..Len(product) :
          i + 7 <= Len(product) /\ ToLowercase(SubSeq(product, i, i + 7)) = "thinkpad"

\* C8: identify_vendor returns the first vendor, in the order Asus, Lenovo,
\* Dell, Huawei, System76, Tuxedo, Samsung, Sony, Lg, Msi, Toshiba, Macbook,
\* whose keyword the manufacturer contains (Lenovo also when the product
\* contains "thinkpad" in any case), and Generic exactly when none matches.
C8_FirstMatchingVendor ==
    call.fn = "identify_vendor" =>
        LET hits == {i \in 1..Len(VendorOrder) :
                        VendorMatches(VendorOrder[i], call.manufacturer, call.product)}
        IN  /\ hits # {} =>
                  ret.val = VendorOrder[CHOOSE i \in hits : \A j \in hits : i <= j]
            /\ ret.val = "Generic" <=> hits = {}

\* a manufacturer that names two vendors goes to the earlier one, and a
\* ThinkPad of an unnamed manufacturer goes to Lenovo
C8_Witness ==
    /\ call.fn = "identify_vendor"
    /\ \/ call.manufacturer = "msi dell" /\ call.product = "XPS 13" /\ ret.val = "Dell"
       \/ call.manufacturer = "generic" /\ call.product = "ThinkPad X1" /\ ret.val = "Lenovo"

(***************************************************************************)
(* SpecVendor: VendorInfo::detect on a machine whose DMI strings are set  *)
(* at boot, while batteries and the huawei-wmi driver come and go.        *)
(***************************************************************************)
MaxVendorEntries == 1

DmiStates ==
    [sys_vendor   : {None, Some("ASUSTeK COMPUTER INC.\n"), Some("LENOVO\n"), Some("QEMU\n"),
                     Some("HUAWEI\n"), Some("\n")},
     product_name : {None, Some("ThinkPad X1\n"), Some("Standard PC\n"), Some(" \n")}]

VendorFileNames ==
    {"charge_control_start_threshold", "charge_control_end_threshold",
     "charge_start_threshold", "charge_stop_threshold", "charge_end_threshold",
     "battery_care_limit", "battery_care_limiter"}

VendorFiles(present) ==
    [f \in VendorFileNames |-> IF f \in present THEN Some("80\n") ELSE None]

VendorEntries ==
    {[name |-> n, files |-> VendorFiles(fs)] :
        n \in {"BAT0", "BATT", "macsmc-battery"},
        fs \in {{}, {"charge_control_end_threshold"},
                {"charge_control_start_threshold", "charge_control_end_threshold"},
                {"charge_start_threshold", "charge_stop_threshold"}}}

InitVendor ==
    /\ sysfs = <<>>
    /\ dmi \in DmiStates
    /\ platform = {}
    /\ lang = "fr"
    /\ cards = NotStarted
    /\ app = NoWindow
    /\ host = FreshHost
    /\ call = NoCall
    /\ ret = None

\* the huawei-wmi driver is loaded or unloaded
ToggleHuaweiWmi ==
    /\ platform' = IF HuaweiWmi \in platform THEN {} ELSE {HuaweiWmi}
    /\ call' = NoCall
    /\ ret' = None
    /\ UNCHANGED <<sysfs, dmi, lang, cards, app, host>>

GetThresholdFiles ==
    /\ \E vendor \in VendorType :
        /\ call' = [fn |-> "get_threshold_files", vendor |-> vendor]
        /\ ret' = Some(get_threshold_files(vendor))
    /\ UNCHANGED <<sysfs, dmi, platform, lang, cards, app, host>>

Detect ==
    /\ call' = [fn |-> "detect"]
    /\ ret' = Some(detect(dmi, sysfs, platform))
    /\ UNCHANGED <<sysfs, dmi, platform, lang, cards, app, host>>

NextVendor ==
    \/ Plug(VendorEntries, MaxVendorEntries)
    \/ Unplug
    \/ ToggleHuaweiWmi
    \/ GetThresholdFiles
    \/ Detect

SpecVendor == InitVendor /\ [][NextVendor]_vars

\* the machine's sys_vendor names Asus
AsusMachine ==
    /\ dmi.sys_vendor.some
    /\ \E i \in 1..Len(dmi.sys_vendor.val) :
          i + 3 <= Len(dmi.sys_vendor.val)
          /\ ToLowercase(SubSeq(dmi.sys_vendor.val, i, i + 3)) = "asus"

\* C9: get_threshold_files gives every vendor a stop path, Asus no start
\* path, Lenovo and Generic a start path, and Generic a
\* charge_control_end_threshold stop path; so detect reports no start
\* threshold on an Asus machine, whatever files exist.
C9_ThresholdFilesPerVendor ==
    /\ call.fn = "get_threshold_files" =>
        /\ Len(ret.val.stop_paths) > 0
        /\ call.vendor = "Asus" => Len(ret.val.start_paths) = 0
        /\ call.vendor \in {"Lenovo", "Generic"} => Len(ret.val.start_paths) > 0
        /\ call.vendor = "Generic" =>
              \E i \in 1..Len(ret.val.stop_paths) :
                  Contains(ret.val.stop_paths[i], "charge_control_end_threshold")
    /\ call.fn = "detect" /\ AsusMachine => ~ret.val.supports_start_threshold

\* an Asus machine whose BAT0 has both threshold files: stop is supported,
\* start is not
C9_Witness ==
    /\ call.fn = "detect"
    /\ AsusMachine
    /\ \E i \in 1..Len(sysfs) :
          /\ sysfs[i].name = "BAT0"
          /\ sysfs[i].files["charge_control_start_threshold"].some
    /\ ret.val.supports_stop_threshold
    /\ ~ret.val.supports_start_threshold

\* C10: VendorInfo::detect returns a non-empty manufacturer and a non-empty
\* product_name, whatever the DMI files hold and whether they can be read.
C10_DetectNeverEmpty ==
    call.fn = "detect" => ret.val.manufacturer # "" /\ ret.val.product_name # ""

\* what holds of C10: the strings are non-empty whenever the DMI files are
\* missing, unreadable or hold something other than white space
C10_NonEmptyUnlessBlankFile ==
    call.fn = "detect" =>
        /\ ~dmi.sys_vendor.some \/ Trim(dmi.sys_vendor.val) # "" => ret.val.manufacturer # ""
        /\ ~dmi.product_name.some \/ Trim(dmi.product_name.val) # "" =>
              ret.val.product_name # ""

(***************************************************************************)
(* core/traits.rs: SystemThresholdWriter::apply_thresholds. A Result is   *)
(* [ok |-> TRUE] or [ok |-> FALSE, err |-> message]; the messages are the  *)
(* source's without their accents.                                         *)
(***************************************************************************)
Ok == [ok |-> TRUE]
Err(msg) == [ok |-> FALSE, err |-> msg]

apply_thresholds_start_may_equal_stop(battery, start, stop) ==
    IF stop > 100 THEN Err("Seuil d'arret invalide (> 100)")
    ELSE IF start.some /\ start.val > 100 THEN Err("Seuil de demarrage invalide (> 100)")
    ELSE IF start.some /\ start.val > stop
         THEN Err("Le seuil de demarrage doit etre inferieur au seuil d'arret")
    ELSE Ok

apply_thresholds(battery, start, stop) ==
    IF stop > 100 THEN Err("Seuil d'arret invalide (> 100)")
    ELSE IF start.some /\ start.val > 100 THEN Err("Seuil de demarrage invalide (> 100)")
    ELSE IF start.some /\ start.val >= stop
         THEN Err("Le seuil de demarrage doit etre inferieur au seuil d'arret")
    ELSE Ok

(***************************************************************************)
(* SpecThreshold: apply_thresholds on u8 thresholds around its limits.    *)
(***************************************************************************)
ThresholdValues == {0, 1, 20, 59, 60, 61, 79, 80, 81, 99, 100, 101, 150, U8Max}

InitThreshold ==
    /\ sysfs = <<>>
    /\ dmi = NoDmi
    /\ platform = {}
    /\ lang = "fr"
    /\ cards = NotStarted
    /\ app = NoWindow
    /\ host = FreshHost
    /\ call = NoCall
    /\ ret = None

ApplyThresholds ==
    /\ call = NoCall
    /\ \E battery \in {"BAT0", "BAT1"}, stop \in ThresholdValues,
          start \in {None} \cup {Some(s) : s \in ThresholdValues} :
        /\ call' = [fn |-> "apply_thresholds", battery |-> battery, start |-> start,
                    stop |-> stop]
        /\ ret' = Some(apply_thresholds(battery, start, stop))
    /\ UNCHANGED <<sysfs, dmi, platform, lang, cards, app, host>>

NextThreshold == ApplyThresholds \/ Return

SpecThreshold == InitThreshold /\ [][NextThreshold]_vars

\* C11: apply_thresholds returns Ok exactly when stop <= 100 and start is
\* None or below stop, and Err otherwise; a stop above 100 gets the stop
\* error whatever start is.
C11_OkIffValidThresholds ==
    call.fn = "apply_thresholds" =>
        /\ ret.val.ok <=>
              call.stop <= 100 /\ (~call.start.some \/ call.start.val < call.stop)
        /\ call.stop > 100 =>
              ~ret.val.ok /\ ret.val.err = "Seuil d'arret invalide (> 100)"

\* start equal to stop is refused, and a stop above 100 with a start that is
\* itself out of range is refused for the stop
C11_Witness ==
    /\ call.fn = "apply_thresholds"
    /\ ~ret.val.ok
    /\ \/ call.start = Some(80) /\ call.stop = 80
       \/ call.start = Some(150) /\ call.stop = 101

(***************************************************************************)
(* SpecLang: set_language, get_language and t called in any order. Each   *)
(* call record after the first set_language carries last_set, the         *)
(* argument of the most recent set_language call.                          *)
(***************************************************************************)
LangArgs == {"en", "fr", "EN", "FR", "En", " en", "en\n", "", "de", "e", "english", "fr_FR"}

LangKeys == {"app_title", "charging", "unknown", "language_fr", "error_start_greater_stop",
             "non_existent_key", "Charging", ""}

InitLang ==
    /\ sysfs = <<>>
    /\ dmi = NoDmi
    /\ platform = {}
    /\ lang = "fr"
    /\ cards = NotStarted
    /\ app = NoWindow
    /\ host = FreshHost
    /\ call = NoCall
    /\ ret = None

LastSet ==
    IF call.fn = "set_language" THEN Some(call.lang)
    ELSE IF call.fn = "none" THEN None
    ELSE call.last_set

SetLanguage ==
    /\ \E l \in LangArgs :
        /\ lang' = set_language(l)
        /\ call' = [fn |-> "set_language", lang |-> l]
    /\ ret' = None
    /\ UNCHANGED <<sysfs, dmi, platform, cards, app, host>>

GetLanguage ==
    /\ call' = [fn |-> "get_language", last_set |-> LastSet]
    /\ ret' = Some(get_language)
    /\ UNCHANGED <<sysfs, dmi, platform, lang, cards, app, host>>

Translate ==
    /\ \E key \in LangKeys :
        /\ call' = [fn |-> "t", key |-> key, last_set |-> LastSet]
        /\ ret' = Some(t(key))
    /\ UNCHANGED <<sysfs, dmi, platform, lang, cards, app, host>>

NextLang == SetLanguage \/ GetLanguage \/ Translate

SpecLang == InitLang /\ [][NextLang]_vars

\* C12: the current language is always "fr" or "en"; get_language returns
\* "fr" before any set_language call, and afterwards "en" if the last call's
\* argument was exactly "en" and "fr" otherwise.
C12_LanguageIsFrOrEn ==
    /\ lang \in {"fr", "en"}
    /\ call.fn = "set_language" => lang = (IF call.lang = "en" THEN "en" ELSE "fr")
    /\ call.fn = "get_language" =>
          ret.val = (IF call.last_set = Some("en") THEN "en" ELSE "fr")

\* get_language answers "fr" after set_language("EN")
C12_Witness ==
    /\ call.fn = "get_language"
    /\ call.last_set = Some("EN")
    /\ ret.val = "fr"

\* the language whose table t must not answer from
OtherLang == IF lang = "en" THEN "fr" ELSE "en"

\* C13: t(key) returns key's translation in the current language when that
\* language's table has key and key itself otherwise, and never the other
\* language's translation.
C13_TranslatesInCurrentLanguage ==
    call.fn = "t" =>
        /\ call.key \in DOMAIN TRANSLATIONS[lang] => ret.val = TRANSLATIONS[lang][call.key]
        /\ call.key \notin DOMAIN TRANSLATIONS[lang] => ret.val = call.key
        /\ /\ call.key \in DOMAIN TRANSLATIONS[OtherLang]
           /\ ret.val = TRANSLATIONS[OtherLang][call.key]
           => /\ call.key \in DOMAIN TRANSLATIONS[lang]
              /\ TRANSLATIONS[lang][call.key] = TRANSLATIONS[OtherLang][call.key]

\* in English, a key of the tables is translated and an unknown key comes
\* back as it is
C13_Witness ==
    /\ call.fn = "t"
    /\ call.last_set = Some("en")
    /\ \/ call.key = "app_title" /\ ret.val = "Battery Manager"
       \/ call.key = "non_existent_key" /\ ret.val = "non_existent_key"

(***************************************************************************)
(* core/power_supply.rs: PowerSupplyInfo::new. ac_name's default is the   *)
(* source's "Non detecte" without its accents.                             *)
(***************************************************************************)
RECURSIVE PowerSupplyLastMains(_, _)
\* a scan that does not stop at the first Mains entry
PowerSupplyLastMains(dir, i) ==
    IF i < 1 THEN [ac_online |-> FALSE, ac_name |-> "Non detecte"]
    ELSE LET name == dir[i].name
             psu_type == ReadToString(dir, name, "type")
             online == ReadToString(dir, name, "online")
         IN  IF psu_type.some /\ Trim(psu_type.val) = "Mains"
             THEN [ac_online |-> online.some /\ Trim(online.val) = "1", ac_name |-> name]
             ELSE PowerSupplyLastMains(dir, i - 1)

PowerSupplyNewLastMains(dir) == PowerSupplyLastMains(dir, Len(dir))

RECURSIVE PowerSupplyLoop(_, _)
\* for entry in entries.flatten() { ... break; }
PowerSupplyLoop(dir, i) ==
    IF i > Len(dir) THEN [ac_online |-> FALSE, ac_name |-> "Non detecte"]
    ELSE LET name == dir[i].name
             psu_type == ReadToString(dir, name, "type")
             online == ReadToString(dir, name, "online")
         IN  IF psu_type.some /\ Trim(psu_type.val) = "Mains"
             THEN [ac_online |-> online.some /\ Trim(online.val) = "1", ac_name |-> name]
             ELSE PowerSupplyLoop(dir, i + 1)

PowerSupplyNew(dir) == PowerSupplyLoop(dir, 1)

(***************************************************************************)
(* SpecPower: power supplies come and go and PowerSupplyInfo::new is      *)
(* called.                                                                 *)
(***************************************************************************)
MaxPowerEntries == 2

PowerNames == {"AC0", "ADP1", "BAT0"}

PowerProfiles ==
    { [type |-> "Mains\n", online |-> "1\n"],
      [type |-> "Mains\n", online |-> "0\n"],
      [type |-> "Mains\n"],
      [type |-> "Mains\n", online |-> "\n"],
      [type |-> "Battery\n", status |-> "Discharging\n", online |-> "1\n"],
      [type |-> "USB\n", online |-> "1\n"],
      [online |-> "1\n"] }

PowerEntries == {[name |-> n, files |-> Files(p)] : n \in PowerNames, p \in PowerProfiles}

InitPower ==
    /\ sysfs = <<>>
    /\ dmi = NoDmi
    /\ platform = {}
    /\ lang = "fr"
    /\ cards = NotStarted
    /\ app = NoWindow
    /\ host = FreshHost
    /\ call = NoCall
    /\ ret = None

PowerSupplyInfoNew ==
    /\ call' = [fn |-> "PowerSupplyInfo::new"]
    /\ ret' = Some(PowerSupplyNew(sysfs))
    /\ UNCHANGED <<sysfs, dmi, platform, lang, cards, app, host>>

NextPower == Plug(PowerEntries, MaxPowerEntries) \/ Unplug \/ PowerSupplyInfoNew

SpecPower == InitPower /\ [][NextPower]_vars

\* the entries whose type file reads Mains
MainsAt(dir) ==
    {i \in 1..Len(dir) : dir[i].files["type"].some /\ Trim(dir[i].files["type"].val) = "Mains"}

\* C19: PowerSupplyInfo::new reports the first entry, in enumeration order,
\* whose type reads Mains: ac_name is its name and ac_online says whether its
\* online file reads 1 (false when unreadable); later Mains entries are
\* ignored; with no Mains entry ac_online is false and ac_name the default.
C19_FirstMainsEntry ==
    call.fn = "PowerSupplyInfo::new" =>
        IF MainsAt(sysfs) = {}
        THEN ret.val = [ac_online |-> FALSE, ac_name |-> "Non detecte"]
        ELSE LET first == CHOOSE i \in MainsAt(sysfs) : \A j \in MainsAt(sysfs) : i <= j
                 online == sysfs[first].files["online"]
             IN  /\ ret.val.ac_name = sysfs[first].name
                 /\ ret.val.ac_online <=> (online.some /\ Trim(online.val) = "1")

\* two Mains entries, the first offline and the second online: the first is
\* reported
C19_Witness ==
    /\ call.fn = "PowerSupplyInfo::new"
    /\ Len(sysfs) = 2
    /\ MainsAt(sysfs) = {1, 2}
    /\ sysfs[2].files["online"] = Some("1\n")
    /\ sysfs[1].files["online"] = Some("0\n")
    /\ ret.val.ac_name = sysfs[1].name
    /\ ~ret.val.ac_online

(***************************************************************************)
(* core/battery.rs: get_battery_list.                                      *)
(***************************************************************************)
\* the names of the entries, in enumeration order, that start with "BAT"
BatteryNamesIn(dir) ==
    SelectSeq([i \in 1..Len(dir) |-> dir[i].name], LAMBDA name : StartsWith(name, "BAT"))

RECURSIVE SortStrings(_)
\* Vec<String>::sort: ascending by bytes
SortStrings(v) ==
    IF Len(v) = 0 THEN <<>>
    ELSE LET sorted == SortStrings(SubSeq(v, 1, Len(v) - 1))
             s == v[Len(v)]
             k == Cardinality({i \in 1..Len(sorted) : ~StrLess(s, sorted[i])})
         IN  SubSeq(sorted, 1, k) \o <<s>> \o SubSeq(sorted, k + 1, Len(sorted))

\* a list left in enumeration order
get_battery_list_unsorted(dir) == BatteryNamesIn(dir)

get_battery_list(dir) == SortStrings(BatteryNamesIn(dir))

(***************************************************************************)
(* ui/app.rs: build_ui and the callback of the 5-second timer. Of the     *)
(* labels of the information tab the model keeps power_source_value,      *)
(* status_value, capacity_label, the two threshold labels and             *)
(* service_label, as the text that goes into their markup.                 *)
(***************************************************************************)
get_power_source_markup(power_supply) ==
    IF power_supply.ac_online THEN "Secteur" ELSE "Batterie"

get_status_markup(info) ==
    CASE info.status = "Charging" -> t("charging")
      [] info.status = "Discharging" -> t("discharging")
      [] info.status = "Full" -> t("full")
      [] info.status = "Not charging" ->
            IF info.capacity_percent >= 100 THEN t("full") ELSE t("not_charging")
      [] OTHER -> "? " \o t("unknown")

service_status_markup(info) == IF info.service_active THEN "Actif" ELSE "Inactif"

build_info_tab(info, power_supply) ==
    [power_source_value   |-> get_power_source_markup(power_supply),
     status_value         |-> get_status_markup(info),
     capacity_label       |-> FormatInt(info.capacity_percent),
     threshold_start_label |->
         IF info.charge_start_threshold.some
         THEN Some(FormatInt(info.charge_start_threshold.val) \o "%")
         ELSE None,
     threshold_stop_label |->
         IF info.charge_stop_threshold.some
         THEN FormatInt(info.charge_stop_threshold.val) \o "%"
         ELSE "N/A",
     service_label        |-> service_status_markup(info)]

\* the labels after the callback has set them from a fresh info
UpdateLabels(widgets, info, power_supply) ==
    [power_source_value   |-> get_power_source_markup(power_supply),
     status_value         |-> get_status_markup(info),
     capacity_label       |-> FormatInt(info.capacity_percent),
     threshold_start_label |->
         IF widgets.threshold_start_label.some /\ info.charge_start_threshold.some
         THEN Some(FormatInt(info.charge_start_threshold.val) \o "%")
         ELSE widgets.threshold_start_label,
     threshold_stop_label |->
         IF info.charge_stop_threshold.some
         THEN FormatInt(info.charge_stop_threshold.val) \o "%"
         ELSE "N/A",
     service_label        |-> service_status_markup(info)]

\* the application before build_ui, built with or without overflow checks
NotStartedBuild(overflow_checks) ==
    [state |-> "not started", overflow_checks |-> overflow_checks]

\* build_no_battery_window: no timer is set up
NoBatteryWindow(overflow_checks) ==
    [state |-> "no battery window", overflow_checks |-> overflow_checks]

\* a panic has left the callback that GTK called
Crashed(overflow_checks) == [state |-> "crashed", overflow_checks |-> overflow_checks]

\* what BatteryInfo::new can do in this build: the overflowing subtraction
\* panics with overflow checks and wraps without
OutcomesOfBuild(outcomes, overflow_checks) ==
    {o \in outcomes :
        IF o.kind = "panic" THEN overflow_checks
        ELSE o.kind = "Ok" /\ o.time_remaining_minutes = "wrapped" => ~overflow_checks}

\* the BatteryInfo an Ok outcome carries
InfoOf(outcome) ==
    [info |-> outcome.info, time_remaining_minutes |-> outcome.time_remaining_minutes]

(***************************************************************************)
(* SpecApp: the application is started once, its timer ticks, its window  *)
(* is closed, while power supplies come and go.                            *)
(***************************************************************************)
MaxAppEntries == 2

AppFileNames == BatteryFileNames \cup FileNames

AppFiles(present) ==
    [f \in AppFileNames |-> IF f \in DOMAIN present THEN Some(present[f]) ELSE None]

AppProfiles ==
    [BAT0 |->
        { [type |-> "Battery\n", status |-> "Discharging\n", capacity |-> "75\n",
           charge_now |-> "3000000\n", charge_full |-> "4000000\n",
           current_now |-> "1500000\n", charge_control_end_threshold |-> "80\n"],
          [type |-> "Battery\n", status |-> "Charging\n", capacity |-> "100\n",
           charge_now |-> "4010000\n", charge_full |-> "4000000\n",
           current_now |-> "20000\n", charge_control_start_threshold |-> "60\n",
           charge_control_end_threshold |-> "80\n"] },
     BAT1 |->
        { [type |-> "Battery\n", status |-> "Full\n", capacity |-> "100\n",
           charge_control_start_threshold |-> "40\n"] },
     AC0 |->
        { [type |-> "Mains\n", online |-> "1\n"] },
     hidpp_battery_0 |->
        { [serial_number |-> "S1\n", manufacturer |-> "Logitech\n", model_name |-> "G Pro\n",
           online |-> "1\n", capacity |-> "85\n", status |-> "Discharging\n"] }]

AppEntries ==
    UNION {{[name |-> n, files |-> AppFiles(p)] : p \in AppProfiles[n]} :
              n \in DOMAIN AppProfiles}

InitApp ==
    /\ sysfs = <<>>
    /\ dmi = NoDmi
    /\ platform = {}
    /\ lang = "fr"
    /\ cards = NotStarted
    /\ app \in {NotStartedBuild(overflow_checks) : overflow_checks \in BOOLEAN}
    /\ host = FreshHost
    /\ call = NoCall
    /\ ret = None

GetBatteryList ==
    /\ call' = [fn |-> "get_battery_list"]
    /\ ret' = Some(get_battery_list(sysfs))
    /\ UNCHANGED <<sysfs, dmi, platform, lang, cards, app, host>>

\* build_ui, from get_battery_list to setup_auto_update
Activate ==
    /\ app.state = "not started"
    /\ LET batteries == get_battery_list(sysfs)
       IN  /\ call' = [fn |-> "build_ui", batteries |-> batteries]
           /\ IF Len(batteries) = 0
              THEN app' = NoBatteryWindow(app.overflow_checks) /\ cards' = cards
              ELSE \E service_active \in BOOLEAN :
                   \E outcome \in OutcomesOfBuild(
                                     BatteryNewOutcomes(sysfs, batteries[1], service_active),
                                     app.overflow_checks) :
                      CASE outcome.kind = "panic" ->
                             app' = Crashed(app.overflow_checks) /\ cards' = cards
                        [] outcome.kind = "Ok" ->
                             /\ app' = [state |-> "window",
                                        overflow_checks |-> app.overflow_checks,
                                        current_battery |-> batteries[1],
                                        battery_info |-> InfoOf(outcome),
                                        widgets |-> build_info_tab(outcome.info,
                                                                   PowerSupplyNew(sysfs)),
                                        labels_alive |-> TRUE,
                                        timer |-> "running"]
                             /\ LET peripherals == detect_all(sysfs)
                                IN  cards' = IF Len(peripherals) = 0 THEN None
                                             ELSE Some(build_peripherals_tab(peripherals))
                        [] OTHER ->
                             app' = NoBatteryWindow(app.overflow_checks) /\ cards' = cards
    /\ ret' = None
    /\ UNCHANGED <<sysfs, dmi, platform, lang, host>>

\* the window is closed: its labels are destroyed
CloseWindow ==
    /\ app.state = "window"
    /\ app.labels_alive
    /\ app' = [app EXCEPT !.labels_alive = FALSE]
    /\ call' = NoCall
    /\ ret' = None
    /\ UNCHANGED <<sysfs, dmi, platform, lang, cards, host>>

\* one run of the closure given to timeout_add_local
Tick ==
    /\ app.state = "window"
    /\ app.timer = "running"
    /\ ret' = None
    /\ IF ~app.labels_alive
       THEN /\ app' = [app EXCEPT !.timer = "stopped"]
            /\ cards' = cards
            /\ call' = [fn |-> "tick", outcome |-> "Break",
                        before |-> [app |-> app, cards |-> cards]]
       ELSE \E service_active \in BOOLEAN :
            \E outcome \in OutcomesOfBuild(
                              BatteryNewOutcomes(sysfs, app.current_battery, service_active),
                              app.overflow_checks) :
               /\ call' = [fn |-> "tick", outcome |-> outcome.kind,
                           battery_name |-> app.current_battery,
                           service_active |-> service_active,
                           before |-> [app |-> app, cards |-> cards]]
               /\ CASE outcome.kind = "panic" ->
                         app' = Crashed(app.overflow_checks) /\ cards' = cards
                    [] outcome.kind = "Ok" ->
                         /\ cards' = IF cards.some
                                      THEN Some(update_peripherals_tab(cards.val,
                                                                       detect_all(sysfs)))
                                      ELSE cards
                         /\ app' = [app EXCEPT
                                      !.widgets = UpdateLabels(app.widgets, outcome.info,
                                                               PowerSupplyNew(sysfs)),
                                      !.battery_info = InfoOf(outcome)]
                    [] OTHER -> app' = app /\ cards' = cards
    /\ UNCHANGED <<sysfs, dmi, platform, lang, host>>

NextApp ==
    \/ Plug(AppEntries, MaxAppEntries)
    \/ Unplug
    \/ GetBatteryList
    \/ Activate
    \/ CloseWindow
    \/ Tick

SpecApp == InitApp /\ [][NextApp]_vars

\* the names under /sys/class/power_supply that start with "BAT"
BatNames == {n \in EntryNames(sysfs) : SubSeq(n, 1, 3) = "BAT"}

\* byte-wise order of two names
NameBefore(a, b) ==
    \/ \E i \in 1..Len(a) :
          /\ i <= Len(b)
          /\ SubSeq(a, 1, i - 1) = SubSeq(b, 1, i - 1)
          /\ Ord(SubSeq(a, i, i)) < Ord(SubSeq(b, i, i))
    \/ Len(a) < Len(b) /\ a = SubSeq(b, 1, Len(a))

C14_ListSortedAndMonitored ==
    /\ call.fn = "get_battery_list" =>
          /\ {ret.val[i] : i \in 1..Len(ret.val)} = BatNames
          /\ \A i \in 1..Len(ret.val) - 1 : NameBefore(ret.val[i], ret.val[i + 1])
    /\ call.fn = "build_ui" /\ app.state = "window" =>
          /\ app.current_battery \in BatNames
          /\ \A n \in BatNames \ {app.current_battery} : NameBefore(app.current_battery, n)
    /\ call.fn = "tick" /\ call.outcome # "Break" =>
          call.battery_name = call.before.app.current_battery

C14_MonitoredNameKept ==
    app.state = "window" /\ app'.state = "window" => app'.current_battery = app.current_battery

\* C14: get_battery_list returns, in ascending order, exactly the names under
\* /sys/class/power_supply that start with "BAT"; the application monitors
\* the smallest of them as listed at startup, and every later timer refresh
\* re-reads that same name.
C14_MonitorsFirstBattery == []C14_ListSortedAndMonitored /\ [][C14_MonitoredNameKept]_vars

\* started with BAT1 enumerated before BAT0, the application monitors BAT0;
\* started with BAT1 alone, a tick still reads BAT1 after BAT0 has appeared
C14_Witness ==
    \/ /\ call.fn = "build_ui"
       /\ Len(sysfs) = 2 /\ sysfs[1].name = "BAT1" /\ sysfs[2].name = "BAT0"
       /\ app.state = "window" /\ app.current_battery = "BAT0"
    \/ /\ call.fn = "tick" /\ call.outcome = "Ok"
       /\ call.battery_name = "BAT1"
       /\ "BAT0" \in EntryNames(sysfs)

\* what a tick that ran the read left behind, when the read did not panic
C15_TickEffects ==
    call.fn = "tick" =>
        /\ call.outcome = "Ok" =>
              /\ app.state = "window"
              /\ app.battery_info.info
                    = ReadBattery(sysfs, call.battery_name, call.service_active)
        /\ call.outcome = "InvalidBatteryName" =>
              app = call.before.app /\ cards = call.before.cards

\* C15: every tick re-reads the battery; a successful read replaces the shared
\* BatteryInfo, a failed one changes nothing; and the timer keeps running
\* after the tick unless one of the weakly held labels no longer exists.
C15_TimerStopsOnlyWithoutLabels ==
    /\ C15_TickEffects
    /\ call.fn = "tick" /\ call.before.app.labels_alive =>
          app.state = "window" /\ app.timer = "running"

\* what holds of C15: the same, for the ticks whose read does not overflow,
\* and a tick stops the timer when the labels are gone
C15_HoldsUnlessReadPanics ==
    /\ C15_TickEffects
    /\ call.fn = "tick" /\ call.outcome # "panic" =>
          /\ app.state = "window"
          /\ app.timer = "running" <=> call.before.app.labels_alive

(***************************************************************************)
(* SpecCards, continued: disconnected cards and the capacity a card       *)
(* remembers.                                                              *)
(***************************************************************************)
\* those of the detected devices that have the stable id of a card
DetectedFor(devices, card) ==
    {devices[j] : j \in {j \in 1..Len(devices) : stable_id(devices[j]) = card.stable_id}}

\* C16: when a refresh detects no device with a card's stable id, the card is
\* kept with status "--", connection "disconnected" and voltage "N/A", its
\* capacity label, name label and remembered capacity unchanged; when a
\* device with that id is detected, on a later refresh too, the card shows
\* that device's values.
C16_DisconnectedCardKept ==
    call.fn = "update_peripherals_tab" =>
        /\ Len(cards.val) = Len(call.before)
        /\ \A k \in 1..Len(cards.val) :
            LET card == cards.val[k]
                before == call.before[k]
                detected == DetectedFor(detect_all(sysfs), before)
            IN  /\ card.stable_id = before.stable_id
                /\ detected = {} =>
                      /\ card.status_value = "--"
                      /\ card.connection_value = TRANSLATIONS[lang]["disconnected"]
                      /\ card.voltage_value = "N/A"
                      /\ card.capacity_value = before.capacity_value
                      /\ card.name_value = before.name_value
                      /\ card.last_capacity = before.last_capacity
                /\ \A d \in detected : Shows(card, d)

\* a card that was marked disconnected shows its device again, with another
\* capacity than the one it had kept
C16_Witness ==
    /\ call.fn = "update_peripherals_tab"
    /\ \E k \in 1..Len(cards.val) : \E d \in DetectedFor(detect_all(sysfs), cards.val[k]) :
        /\ call.before[k].status_value = "--"
        /\ call.before[k].connection_value = TRANSLATIONS[lang]["disconnected"]
        /\ call.before[k].last_capacity # Some(d.capacity_percent)
        /\ Shows(cards.val[k], d)

\* a device whose raw status is Unknown, online, below 100 %
UnknownOnline(d) ==
    /\ ToLowercase(Trim(d.status)) = "unknown"
    /\ d.online
    /\ d.capacity_percent < 100

\* the status a card must show for such a device, given what it remembered
DeltaStatus(d, remembered) ==
    IF remembered.some /\ d.capacity_percent > remembered.val
    THEN TRANSLATIONS[lang]["charging"]
    ELSE IF remembered.some /\ d.capacity_percent < remembered.val
    THEN TRANSLATIONS[lang]["discharging"]
    ELSE TRANSLATIONS[lang]["unknown"]

\* C17: for a peripheral whose raw status is Unknown, online and below 100 %,
\* the card shows charging iff the capacity is above the one remembered from
\* the card's previous update, discharging iff below, unknown when equal or
\* when there was no previous update; the card remembers the capacity of the
\* most recent update in which its device was found.
C17_StatusFromCapacityDelta ==
    /\ call.fn = "build_ui" /\ cards.some =>
          \A k \in 1..Len(cards.val) : \A d \in DetectedFor(detect_all(sysfs), cards.val[k]) :
              /\ cards.val[k].last_capacity = Some(d.capacity_percent)
              /\ UnknownOnline(d) => cards.val[k].status_value = DeltaStatus(d, None)
    /\ call.fn = "update_peripherals_tab" =>
          \A k \in 1..Len(cards.val) :
           LET detected == DetectedFor(detect_all(sysfs), cards.val[k])
           IN /\ detected = {} =>
                    cards.val[k].last_capacity = call.before[k].last_capacity
              /\ \A d \in detected :
                    /\ cards.val[k].last_capacity = Some(d.capacity_percent)
                    /\ UnknownOnline(d) =>
                          cards.val[k].status_value
                              = DeltaStatus(d, call.before[k].last_capacity)

\* a device of unknown status is shown as charging because its capacity rose
C17_Witness ==
    /\ call.fn = "update_peripherals_tab"
    /\ \E k \in 1..Len(cards.val) : \E d \in DetectedFor(detect_all(sysfs), cards.val[k]) :
        /\ UnknownOnline(d)
        /\ call.before[k].last_capacity.some
        /\ call.before[k].last_capacity.val < d.capacity_percent
        /\ cards.val[k].status_value = TRANSLATIONS[lang]["charging"]

(***************************************************************************)
(* ui/settings_tab.rs: the settings tab's controls and the handler of the *)
(* Apply button. The alarm is kept in whole percents; the model's values  *)
(* are those for which the f32 arithmetic of the source is exact.         *)
(***************************************************************************)
\* Adjustment::new(value, min, max, ..): the value is kept within the range
Clamp(v, min, max) == IF v < min THEN min ELSE IF v > max THEN max ELSE v

\* info.alarm_percent().unwrap_or(10.0) as u8
\* (a division by a zero charge_full is infinite, or NaN for 0 / 0)
AlarmSpinDefault(info) ==
    IF ~info.alarm.some THEN 10
    ELSE IF info.charge_full = 0 THEN (IF info.alarm.val = 0 THEN 0 ELSE U8Max)
    ELSE Clamp((info.alarm.val * 100) \div info.charge_full, 0, U8Max)

build_settings_tab(battery_info, current_battery) ==
    [state           |-> "settings tab",
     current_battery |-> current_battery,
     start_spin      |-> IF battery_info.charge_start_threshold.some
                         THEN Some(Clamp(battery_info.charge_start_threshold.val, 0, 99))
                         ELSE None,
     stop_spin       |-> Clamp(UnwrapOr(battery_info.charge_stop_threshold, 80), 1, 100),
     alarm_spin      |-> Clamp(AlarmSpinDefault(battery_info), 1, 100),
     service_switch  |-> battery_info.service_active,
     status_message  |-> [markup |-> "", classes |-> {}]]

\* a validation that lets start equal stop
StartNotBelowStopStrict(start_spin, start, stop) == start_spin.some /\ start > stop

\* start_spin.as_ref().is_some() && start >= stop
StartNotBelowStop(start_spin, start, stop) == start_spin.some /\ start >= stop

\* the alarm in the unit of charge_full (or energy_full), as a string
AlarmValueStr(dir, battery, alarm_pct) ==
    LET charge == ReadToString(dir, battery, "charge_full")
        charge_full_str == IF charge.some THEN charge
                           ELSE ReadToString(dir, battery, "energy_full")
        full_value == IF charge_full_str.some
                      THEN ParseUnsigned(Trim(charge_full_str.val), 999999999)
                      ELSE None
    IN  IF full_value.some THEN FormatInt((full_value.val * alarm_pct) \div 100) ELSE "0"

\* start_paths and stop_paths, as file names under the battery's directory
StartFiles == <<"charge_control_start_threshold", "charge_start_threshold">>

StopFiles == <<"charge_control_end_threshold", "charge_stop_threshold", "charge_end_threshold">>

\* "[ -f {path} ] && echo {value} > {path}; "
WriteCommand(battery, file, value) ==
    LET path == "/sys/class/power_supply/" \o battery \o "/" \o file
    IN  "[ -f " \o path \o " ] && echo " \o value \o " > " \o path \o "; "

ConfigContent(start_spin, start, stop) ==
    IF start_spin.some
    THEN "START_THRESHOLD=" \o FormatInt(start) \o "\\nSTOP_THRESHOLD=" \o FormatInt(stop)
         \o "\\n"
    ELSE "STOP_THRESHOLD=" \o FormatInt(stop) \o "\\n"

\* the script handed to pkexec sh -c
Script(battery, start_spin, start, stop, alarm_value_str, enable_service) ==
    "mkdir -p /etc/battery-manager; "
    \o WriteCommand(battery, StartFiles[1], FormatInt(start))
    \o WriteCommand(battery, StartFiles[2], FormatInt(start))
    \o WriteCommand(battery, StopFiles[1], FormatInt(stop))
    \o WriteCommand(battery, StopFiles[2], FormatInt(stop))
    \o WriteCommand(battery, StopFiles[3], FormatInt(stop))
    \o WriteCommand(battery, "alarm", alarm_value_str)
    \o "echo '" \o ConfigContent(start_spin, start, stop) \o "' > /etc/battery-manager/"
    \o battery \o ".conf; "
    \o (IF enable_service
        THEN "systemctl enable battery-manager.service; "
             \o "systemctl start battery-manager.service; "
        ELSE "systemctl disable battery-manager.service 2>/dev/null || true; "
             \o "systemctl stop battery-manager.service 2>/dev/null || true; ")

\* the files of a battery after the script's echo commands, each guarded by
\* [ -f path ]
FilesAfterScript(files, start, stop, alarm_value_str) ==
    [f \in DOMAIN files |->
        IF ~files[f].some THEN files[f]
        ELSE IF f \in {StartFiles[i] : i \in 1..Len(StartFiles)}
        THEN Some(FormatInt(start) \o "\n")
        ELSE IF f \in {StopFiles[i] : i \in 1..Len(StopFiles)}
        THEN Some(FormatInt(stop) \o "\n")
        ELSE IF f = "alarm" THEN Some(alarm_value_str \o "\n")
        ELSE files[f]]

SysfsAfterScript(dir, battery, start, stop, alarm_value_str) ==
    [i \in 1..Len(dir) |->
        IF dir[i].name = battery
        THEN [dir[i] EXCEPT !.files = FilesAfterScript(@, start, stop, alarm_value_str)]
        ELSE dir[i]]

\* what `which pkexec` and `pkexec sh -c script` can do
PkexecOutcomes(enable_service) ==
    {"not installed", "spawn error", "dismissed", "success"}
    \cup (IF enable_service THEN {"service failed"} ELSE {})

\* status_message after the handler
StatusAfter(message, outcome, start_spin, start, stop, alarm_pct, enable_service) ==
    CASE outcome = "success" ->
            [markup |-> "<span>" \o t("settings_applied") \o ": "
                        \o (IF start_spin.some THEN FormatInt(start) \o "%-" ELSE "")
                        \o FormatInt(stop) \o "%, " \o t("alarm") \o ": "
                        \o FormatInt(alarm_pct) \o ".0%, " \o t("service") \o ": "
                        \o (IF enable_service THEN t("enabled") ELSE t("disabled"))
                        \o (IF enable_service THEN ""
                            ELSE "\n<span size='small'>" \o t("warning_not_persistent")
                                 \o "</span>")
                        \o "</span>",
             classes |-> (message.classes \ {"color-warning", "color-danger"})
                         \cup {"color-success"}]
      [] outcome = "not installed" ->
            [markup |-> "<span>" \o t("error")
                        \o ": pkexec not installed. Install policykit-1 or polkit.</span>",
             classes |-> (message.classes \ {"color-success", "color-warning"})
                         \cup {"color-danger"}]
      [] outcome = "spawn error" ->
            [markup |-> "<span>" \o t("error_execution") \o ": io error</span>",
             classes |-> (message.classes \ {"color-success", "color-warning"})
                         \cup {"color-danger"}]
      [] OTHER ->
            [markup |-> "<span>" \o t("error") \o ": " \o outcome \o "</span>",
             classes |-> (message.classes \ {"color-success", "color-warning"})
                         \cup {"color-danger"}]

(***************************************************************************)
(* SpecSettings: the settings tab built for BAT0; the user turns the spin *)
(* buttons, flips the service switch and clicks Apply.                     *)
(***************************************************************************)
SettingsProfiles ==
    { [status |-> "Discharging\n", capacity |-> "75\n", charge_full |-> "4000000\n",
       charge_control_start_threshold |-> "40\n", charge_control_end_threshold |-> "80\n",
       alarm |-> "400000\n"],
      [status |-> "Discharging\n", capacity |-> "75\n", energy_full |-> "5000000\n",
       charge_start_threshold |-> "99\n", charge_stop_threshold |-> "60\n"],
      [status |-> "Charging\n", capacity |-> "50\n", charge_full |-> "4000000\n",
       charge_control_end_threshold |-> "80\n", alarm |-> "0\n"] }

StartValues == {0, 40, 80, 99}

StopValues == {1, 60, 80, 100}

InitSettings ==
    /\ sysfs \in {<<[name |-> "BAT0", files |-> BatteryFiles(p)]>> : p \in SettingsProfiles}
    /\ dmi = NoDmi
    /\ platform = {}
    /\ lang = "fr"
    /\ cards = NotStarted
    /\ host \in {[conf |-> None, service_enabled |-> b] : b \in BOOLEAN}
    /\ app = build_settings_tab(ReadBattery(sysfs, "BAT0", host.service_enabled), "BAT0")
    /\ call = NoCall
    /\ ret = None

\* the user sets the start spin button, where there is one
SetStart ==
    /\ app.start_spin.some
    /\ \E v \in StartValues : app' = [app EXCEPT !.start_spin = Some(v)]
    /\ call' = NoCall
    /\ ret' = None
    /\ UNCHANGED <<sysfs, dmi, platform, lang, cards, host>>

SetStop ==
    /\ \E v \in StopValues : app' = [app EXCEPT !.stop_spin = v]
    /\ call' = NoCall
    /\ ret' = None
    /\ UNCHANGED <<sysfs, dmi, platform, lang, cards, host>>

ToggleService ==
    /\ app' = [app EXCEPT !.service_switch = ~@]
    /\ call' = NoCall
    /\ ret' = None
    /\ UNCHANGED <<sysfs, dmi, platform, lang, cards, host>>

\* apply_button.connect_clicked
ApplyClicked ==
    LET start == IF app.start_spin.some THEN app.start_spin.val ELSE 0
        stop == app.stop_spin
        alarm_pct == app.alarm_spin
        enable_service == app.service_switch
        battery == app.current_battery
        alarm_value_str == AlarmValueStr(sysfs, battery, alarm_pct)
        script == Script(battery, app.start_spin, start, stop, alarm_value_str,
                         enable_service)
        record(script_built, outcome) ==
            [fn |-> "apply_clicked", start_spin |-> app.start_spin, start |-> start,
             stop |-> stop, script |-> script_built, outcome |-> outcome,
             before |-> [sysfs |-> sysfs, host |-> host]]
    IN  /\ ret' = None
        /\ UNCHANGED <<dmi, platform, lang, cards>>
        /\ IF StartNotBelowStop(app.start_spin, start, stop)
           THEN /\ app' = [app EXCEPT !.status_message =
                              [markup |-> "<span>" \o t("error_start_greater_stop")
                                          \o "</span>",
                               classes |-> @.classes \cup {"color-danger"}]]
                /\ call' = record(None, "start >= stop")
                /\ UNCHANGED <<sysfs, host>>
           ELSE IF ~(AllDigits(FormatInt(start)) /\ AllDigits(FormatInt(stop))
                     /\ AllDigits(alarm_value_str))
           THEN /\ app' = [app EXCEPT !.status_message =
                              [markup |-> "<span>" \o t("error")
                                          \o ": Invalid numeric values</span>",
                               classes |-> (@.classes \ {"color-success", "color-warning"})
                                           \cup {"color-danger"}]]
                /\ call' = record(None, "invalid numeric values")
                /\ UNCHANGED <<sysfs, host>>
           ELSE \E outcome \in PkexecOutcomes(enable_service) :
                /\ call' = record(Some(script), outcome)
                /\ app' = [app EXCEPT !.status_message =
                              StatusAfter(@, outcome, app.start_spin, start, stop,
                                          alarm_pct, enable_service)]
                /\ IF outcome \in {"success", "service failed"}
                   THEN /\ sysfs' = SysfsAfterScript(sysfs, battery, start, stop,
                                                     alarm_value_str)
                        /\ host' = [conf |-> Some(ConfigContent(app.start_spin, start, stop)),
                                    service_enabled |->
                                        IF outcome = "success" THEN enable_service
                                        ELSE host.service_enabled]
                   ELSE UNCHANGED <<sysfs, host>>

NextSettings == SetStart \/ SetStop \/ ToggleService \/ ApplyClicked

SpecSettings == InitSettings /\ [][NextSettings]_vars

\* C18: when Apply is clicked while there is a start spin button and start is
\* not below stop, the tab shows the error_start_greater_stop text and the
\* handler returns with no script built or run: the sysfs files, the saved
\* configuration and the service are as they were.
C18_StartNotBelowStopRefused ==
    call.fn = "apply_clicked" /\ call.start_spin.some /\ call.start >= call.stop =>
        /\ app.status_message.markup
              = "<span>" \o TRANSLATIONS[lang]["error_start_greater_stop"] \o "</span>"
        /\ "color-danger" \in app.status_message.classes
        /\ ~call.script.some
        /\ sysfs = call.before.sysfs
        /\ host = call.before.host

\* Apply with start equal to stop, after an Apply that did change the system
C18_Witness ==
    /\ call.fn = "apply_clicked"
    /\ call.start_spin = Some(80)
    /\ call.stop = 80
    /\ host.conf.some
    /\ ~call.script.some

=============================================================================
